---- MODULE Spec2Model ----
(***************************************************************************)
(* A model of kle-serial: deserialisation of Keyboard Layout Editor JSON   *)
(* into keys.  Three layers are modelled:                                  *)
(*   - utils.rs   : BoundedUsize, LEGEND_MAPPING, realign_legends          *)
(*   - de/mod.rs  : the KleProps cursor (update, next_key, next_line,      *)
(*                  build_key) and KleLayoutIterator                       *)
(*   - de/json.rs, lib.rs : the shape of the document and the two entry    *)
(*                  points Keyboard / KeyIterator                          *)
(*                                                                         *)
(* Conventions.  Option<T> is a sequence of length 0 (None) or 1 (Some).   *)
(* Arrays are functions on 0..NUM_LEGENDS-1, Vecs are sequences.  Real     *)
(* numbers are fixed point: a model integer n stands for n / One.  A       *)
(* string that the code splits with str::lines() is kept as the sequence   *)
(* of its "\n"-separated segments (always at least one segment).           *)
(***************************************************************************)
EXTENDS Integers, Sequences, FiniteSets, TLC

VARIABLES
    pc,       \* position of the caller: which call has been made
    props,    \* a KleProps cursor under test (cursor-level specifications)
    prev,     \* the cursor before the last operation on it
    op,       \* the last operation and its argument
    key,      \* Option<Key>: the key built by the last build_key
    calls,    \* how many operations the caller has made on the cursor
    doc,      \* the JSON document handed to the entry point
    entry,    \* "Keyboard" or "KeyIterator"
    result,   \* what the entry point returned
    iter,     \* the KleLayoutIterator held by a KeyIterator
    yielded,  \* what each KeyIterator::next call so far returned
    runs      \* the outcomes of the earlier parses of the same document

vars == <<pc, props, prev, op, key, calls, doc, entry, result, iter, yielded,
          runs>>

----------------------------------------------------------------------------
(* Option *)

None == <<>>
Some(v) == <<v>>
IsSome(o) == o # <<>>
Unwrap(o) == o[1]
UnwrapOr(o, d) == IF o = <<>> THEN d ELSE o[1]
\* Option::or
OrElse(o, p) == IF o = <<>> THEN p ELSE o

Min(a, b) == IF a < b THEN a ELSE b

\* The({e(r) : r \in {x}}) is LET r == x IN e(r) with x evaluated once,
\* before e: the way the code binds a local
The(S) == CHOOSE y \in S : TRUE
Range(seq) == {seq[i] : i \in 1 .. Len(seq)}

\* Result
Ok(v) == [ok |-> TRUE, v |-> v]
Err(e) == [ok |-> FALSE, e |-> e]

\* a String is the sequence of its "\n"-separated segments: Str("ab") is
\* "ab", <<"a", "", "b">> is "a\n\nb"; String::new() is the empty string
Str(s) == <<s>>
String_new == <<"">>

\* str::lines() on a string kept as its "\n"-separated segments: the line
\* after a final "\n" is not a line
Lines(segs) ==
    IF segs[Len(segs)] = "" THEN SubSeq(segs, 1, Len(segs) - 1) ELSE segs

----------------------------------------------------------------------------
(* lib.rs constants *)

NUM_LEGENDS == 12
Slots == 0 .. (NUM_LEGENDS - 1)

\* T::one(): the fixed-point unit, so that 0.25 and 0.5 are integers
One == 4
Zero == 0

COLOR_BACKGROUND == <<238, 238, 238, 255>>
COLOR_KEY == <<204, 204, 204, 255>>
COLOR_LEGEND == <<0, 0, 0, 255>>

----------------------------------------------------------------------------
(* utils.rs: BoundedUsize *)

FONT_MAX == 9
FONT_DEF == 3
ALIGN_DEF == 4

\* struct BoundsError: a unit struct, it carries nothing
BoundsError == [kind |-> "BoundsError"]

\* a new that brings a value beyond the maximum down to the maximum
BoundedUsize_new_clamped(max, value) ==
    IF value <= max THEN Ok(value) ELSE Ok(max)

\* BoundedUsize::<MAX, DEF>::new: Ok(value) or Err(BoundsError)
BoundedUsize_new(max, value) ==
    IF value <= max THEN Ok(value) ELSE Err(BoundsError)

\* usize::from(BoundedUsize): the wrapped value
usize_from(value) == value

\* BoundedUsize::<MAX, DEF>::default()
BoundedUsize_default(def) == def

LEGEND_MAPPING == <<
    <<0, 6, 2, 8, 9, 11, 3, 5, 1, 4, 7, 10>>,
    <<1, 7, 0, 2, 9, 11, 4, 3, 5, 6, 8, 10>>,
    <<3, 0, 5, 1, 9, 11, 2, 6, 4, 7, 8, 10>>,
    <<4, 0, 1, 2, 9, 11, 3, 5, 6, 7, 8, 10>>,
    <<0, 6, 2, 8, 10, 9, 3, 5, 1, 4, 7, 11>>,
    <<1, 7, 0, 2, 10, 3, 4, 5, 6, 8, 9, 11>>,
    <<3, 0, 5, 1, 10, 2, 6, 7, 4, 8, 9, 11>>,
    <<4, 0, 1, 2, 10, 3, 5, 6, 7, 8, 9, 11>> >>

MAX_ALIGNMENT == Len(LEGEND_MAPPING) - 1

\* table[a][i] with the source's 0-based indices
Table(a, i) == LEGEND_MAPPING[a + 1][i + 1]

\* a realign_legends that writes each legend to its mapped slot, or to the
\* last slot it fills when the mapped slot is beyond it
realign_legends_clipped(values, alignment) ==
    LET n == Min(NUM_LEGENDS, Len(values))
        mapping == LEGEND_MAPPING[alignment + 1]
        slot == [i \in 0 .. (n - 1) |-> Min(mapping[i + 1], n - 1)]
    IN  [j \in Slots |->
            IF \E i \in 0 .. (n - 1) : slot[i] = j
            THEN values[(CHOOSE i \in 0 .. (n - 1) :
                            slot[i] = j /\ \A h \in 0 .. (n - 1) :
                                              slot[h] = j => h <= i) + 1]
            ELSE None]

\* a realign_legends that leaves every legend at its raw index
realign_legends_in_place(values, alignment) ==
    [j \in Slots |-> IF j < Min(NUM_LEGENDS, Len(values)) THEN values[j + 1] ELSE None]

\* realign_legends(values, alignment): `values` is the sequence the iterator
\* passed in yields (values[i + 1] is raw item i).  The mapping row is zipped
\* with it (the zip ends with the shorter of the two), the pairs are sorted
\* by mapped slot (a stable sort), and the output array is filled from the
\* sorted values in order, None once they run out.
realign_legends(values, alignment) ==
    LET n == Min(NUM_LEGENDS, Len(values))
        zipped == 0 .. (n - 1)
        mapping == LEGEND_MAPPING[alignment + 1]
        \* position of pair i after the stable sort by key
        rank == [i \in zipped |->
                    Cardinality({k \in zipped :
                        \/ mapping[k + 1] < mapping[i + 1]
                        \/ mapping[k + 1] = mapping[i + 1] /\ k < i})]
        sorted == [j \in zipped |-> CHOOSE i \in zipped : rank[i] = j]
    IN  [j \in Slots |-> IF j < n THEN values[sorted[j] + 1] ELSE None]

----------------------------------------------------------------------------
(* de/json.rs: KlePropsObject, a property overlay after deserialisation *)

KlePropsObject_default == [
    x |-> None, y |-> None, w |-> None, h |-> None,
    x2 |-> None, y2 |-> None, w2 |-> None, h2 |-> None,
    r |-> None, rx |-> None, ry |-> None,
    l |-> None, n |-> None, d |-> None, g |-> None,
    sm |-> None, sb |-> None, st |-> None,
    c |-> None, t |-> None, a |-> None, p |-> None,
    f |-> None, f2 |-> None, fa |-> None ]

\* Vec::get / slice::get with a 0-based index
Get(vec, i) == IF i < Len(vec) THEN Some(vec[i + 1]) ELSE None
\* slice::first
First(vec) == Get(vec, 0)
\* Option<Option<T>>::flatten
Flatten(o) == IF o = <<>> THEN None ELSE o[1]

----------------------------------------------------------------------------
(* de/mod.rs: the KleProps cursor *)

KleProps_default == [
    x |-> Zero, y |-> Zero, w |-> One, h |-> One,
    x2 |-> Zero, y2 |-> Zero, w2 |-> One, h2 |-> One,
    l |-> FALSE, n |-> FALSE, d |-> FALSE,
    r |-> Zero, rx |-> Zero, ry |-> Zero,
    g |-> FALSE,
    sm |-> String_new, sb |-> String_new, st |-> String_new,
    c |-> COLOR_KEY,
    t |-> COLOR_LEGEND,
    ta |-> [i \in Slots |-> COLOR_LEGEND],
    a |-> ALIGN_DEF,
    p |-> String_new,
    f |-> FONT_DEF,
    fa |-> [i \in Slots |-> FONT_DEF] ]

\* an update_fa that merges: an f alone changes slot 0 and keeps the rest
update_fa_merge(self, o) ==
    LET f == UnwrapOr(o.f, self.f)
    IN  IF IsSome(o.fa)
        THEN [i \in Slots |->
                LET e == Get(Unwrap(o.fa), i)
                IN  IF IsSome(e) /\ Unwrap(e) > 0 THEN Unwrap(e) ELSE f]
        ELSE IF IsSome(o.f2)
        THEN [i \in Slots |-> IF i = 0 THEN f ELSE Unwrap(o.f2)]
        ELSE IF IsSome(o.f)
        THEN [i \in Slots |-> IF i = 0 THEN Unwrap(o.f) ELSE self.fa[i]]
        ELSE self.fa

\* an update_fa in which f2 comes before fa
update_fa_f2_first(self, o) ==
    LET f == UnwrapOr(o.f, self.f)
    IN  IF IsSome(o.f2)
        THEN [i \in Slots |-> IF i = 0 THEN f ELSE Unwrap(o.f2)]
        ELSE IF IsSome(o.fa)
        THEN [i \in Slots |->
                LET e == Get(Unwrap(o.fa), i)
                IN  IF IsSome(e) /\ Unwrap(e) > 0 THEN Unwrap(e) ELSE f]
        ELSE IF IsSome(o.f)
        THEN [i \in Slots |-> Unwrap(o.f)]
        ELSE self.fa

\* the font-size part of KleProps::update
update_fa(self, o) ==
    LET f == UnwrapOr(o.f, self.f)
    IN  IF IsSome(o.fa)
        THEN [i \in Slots |->
                LET e == Get(Unwrap(o.fa), i)
                IN  IF IsSome(e) /\ Unwrap(e) > 0 THEN Unwrap(e) ELSE f]
        ELSE IF IsSome(o.f2)
        THEN [i \in Slots |-> IF i = 0 THEN f ELSE Unwrap(o.f2)]
        ELSE IF IsSome(o.f)
        THEN [i \in Slots |-> Unwrap(o.f)]
        ELSE self.fa

\* an update_t whose slots without an entry keep the colour they had
update_t_keep_slots(self, o) ==
    LET t == UnwrapOr(IF IsSome(o.t) THEN Flatten(First(Unwrap(o.t))) ELSE None,
                      self.t)
    IN  <<t,
          IF IsSome(o.t)
          THEN [i \in Slots |-> UnwrapOr(Flatten(Get(Unwrap(o.t), i)), self.ta[i])]
          ELSE self.ta>>

\* the legend-colour part of KleProps::update: <<t, ta>>
update_t(self, o) ==
    LET t == UnwrapOr(IF IsSome(o.t) THEN Flatten(First(Unwrap(o.t))) ELSE None,
                      self.t)
    IN  <<t,
          IF IsSome(o.t)
          THEN [i \in Slots |-> UnwrapOr(Flatten(Get(Unwrap(o.t), i)), t)]
          ELSE self.ta>>

\* an update_anchor that measures an overlay's x from 0, not from the cursor
update_anchor_absolute_x(self, o) ==
    IF IsSome(o.rx) \/ IsSome(o.ry)
    THEN LET rx == UnwrapOr(o.rx, self.rx)
             ry == UnwrapOr(o.ry, self.ry)
         IN  <<rx, ry, rx, ry>>
    ELSE <<Zero, self.y, self.rx, self.ry>>

\* an update_anchor that resolves the anchor and leaves the x/y cursor alone
update_anchor_keep_cursor(self, o) ==
    IF IsSome(o.rx) \/ IsSome(o.ry)
    THEN <<self.x, self.y, UnwrapOr(o.rx, self.rx), UnwrapOr(o.ry, self.ry)>>
    ELSE <<self.x, self.y, self.rx, self.ry>>

\* the rotation-anchor part of KleProps::update: <<x, y, rx, ry>>
update_anchor(self, o) ==
    IF IsSome(o.rx) \/ IsSome(o.ry)
    THEN LET rx == UnwrapOr(o.rx, self.rx)
             ry == UnwrapOr(o.ry, self.ry)
         IN  <<rx, ry, rx, ry>>
    ELSE <<self.x, self.y, self.rx, self.ry>>

\* an update whose secondary rectangle takes nothing from the overlay's w
\* and h and keeps the x2 and y2 it had
update_secondary_apart(self, o) ==
    LET tt == update_t(self, o)
        xy == update_anchor(self, o)
    IN  [ x  |-> xy[1] + UnwrapOr(o.x, Zero),
          y  |-> xy[2] + UnwrapOr(o.y, Zero),
          w  |-> UnwrapOr(o.w, One),
          h  |-> UnwrapOr(o.h, One),
          x2 |-> UnwrapOr(o.x2, self.x2),
          y2 |-> UnwrapOr(o.y2, self.y2),
          w2 |-> UnwrapOr(o.w2, One),
          h2 |-> UnwrapOr(o.h2, One),
          l  |-> UnwrapOr(o.l, FALSE),
          n  |-> UnwrapOr(o.n, FALSE),
          d  |-> UnwrapOr(o.d, FALSE),
          r  |-> UnwrapOr(o.r, self.r),
          rx |-> xy[3],
          ry |-> xy[4],
          g  |-> UnwrapOr(o.g, self.g),
          sm |-> UnwrapOr(o.sm, self.sm),
          sb |-> UnwrapOr(o.sb, self.sb),
          st |-> UnwrapOr(o.st, self.st),
          c  |-> UnwrapOr(o.c, self.c),
          t  |-> tt[1],
          ta |-> tt[2],
          a  |-> UnwrapOr(o.a, self.a),
          p  |-> UnwrapOr(o.p, self.p),
          f  |-> UnwrapOr(o.f, self.f),
          fa |-> update_fa(self, o) ]

\* an update that keeps the width, the height and the stepped flag of the
\* overlays before when the overlay omits them
update_keep_size(self, o) ==
    LET tt == update_t(self, o)
        xy == update_anchor(self, o)
    IN  [ x  |-> xy[1] + UnwrapOr(o.x, Zero),
          y  |-> xy[2] + UnwrapOr(o.y, Zero),
          w  |-> UnwrapOr(o.w, self.w),
          h  |-> UnwrapOr(o.h, self.h),
          x2 |-> UnwrapOr(o.x2, Zero),
          y2 |-> UnwrapOr(o.y2, Zero),
          w2 |-> UnwrapOr(OrElse(o.w2, o.w), One),
          h2 |-> UnwrapOr(OrElse(o.h2, o.h), One),
          l  |-> UnwrapOr(o.l, self.l),
          n  |-> UnwrapOr(o.n, FALSE),
          d  |-> UnwrapOr(o.d, FALSE),
          r  |-> UnwrapOr(o.r, self.r),
          rx |-> xy[3],
          ry |-> xy[4],
          g  |-> UnwrapOr(o.g, self.g),
          sm |-> UnwrapOr(o.sm, self.sm),
          sb |-> UnwrapOr(o.sb, self.sb),
          st |-> UnwrapOr(o.st, self.st),
          c  |-> UnwrapOr(o.c, self.c),
          t  |-> tt[1],
          ta |-> tt[2],
          a  |-> UnwrapOr(o.a, self.a),
          p  |-> UnwrapOr(o.p, self.p),
          f  |-> UnwrapOr(o.f, self.f),
          fa |-> update_fa(self, o) ]

\* KleProps::update(&mut self, props): the cursor after the overlay
update(self, o) ==
    LET tt == update_t(self, o)
        xy == update_anchor(self, o)
    IN  [ x  |-> xy[1] + UnwrapOr(o.x, Zero),
          y  |-> xy[2] + UnwrapOr(o.y, Zero),
          w  |-> UnwrapOr(o.w, One),
          h  |-> UnwrapOr(o.h, One),
          x2 |-> UnwrapOr(o.x2, Zero),
          y2 |-> UnwrapOr(o.y2, Zero),
          w2 |-> UnwrapOr(OrElse(o.w2, o.w), One),
          h2 |-> UnwrapOr(OrElse(o.h2, o.h), One),
          l  |-> UnwrapOr(o.l, FALSE),
          n  |-> UnwrapOr(o.n, FALSE),
          d  |-> UnwrapOr(o.d, FALSE),
          r  |-> UnwrapOr(o.r, self.r),
          rx |-> xy[3],
          ry |-> xy[4],
          g  |-> UnwrapOr(o.g, self.g),
          sm |-> UnwrapOr(o.sm, self.sm),
          sb |-> UnwrapOr(o.sb, self.sb),
          st |-> UnwrapOr(o.st, self.st),
          c  |-> UnwrapOr(o.c, self.c),
          t  |-> tt[1],
          ta |-> tt[2],
          a  |-> UnwrapOr(o.a, self.a),
          p  |-> UnwrapOr(o.p, self.p),
          f  |-> UnwrapOr(o.f, self.f),
          fa |-> update_fa(self, o) ]

\* a next_key that moves past the wider of the two rectangles
next_key_past_both(self) ==
    [self EXCEPT !.x = self.x + (IF self.x2 + self.w2 > self.w
                                 THEN self.x2 + self.w2 ELSE self.w),
                 !.w = One, !.h = One,
                 !.x2 = Zero, !.y2 = Zero,
                 !.w2 = One, !.h2 = One,
                 !.l = FALSE, !.n = FALSE, !.d = FALSE]

\* a next_key that leaves stepped, homing and decal as they are
next_key_keep_flags(self) ==
    [self EXCEPT !.x = self.x + self.w,
                 !.w = One, !.h = One,
                 !.x2 = Zero, !.y2 = Zero,
                 !.w2 = One, !.h2 = One]

\* KleProps::next_key(&mut self)
next_key(self) ==
    [self EXCEPT !.x = self.x + self.w,
                 !.w = One, !.h = One,
                 !.x2 = Zero, !.y2 = Zero,
                 !.w2 = One, !.h2 = One,
                 !.l = FALSE, !.n = FALSE, !.d = FALSE]

\* a next_line that goes back to x = 0 and to the anchor's y
next_line_to_origin(self) ==
    LET k == next_key(self)
    IN  [k EXCEPT !.x = Zero, !.y = k.ry + One]

\* a next_line that starts the row with the default rotation, key colour
\* and alignment
next_line_fresh_style(self) ==
    LET k == next_key(self)
    IN  [k EXCEPT !.x = k.rx, !.y = k.y + One,
                  !.r = Zero, !.c = COLOR_KEY, !.a = ALIGN_DEF]

\* a next_line that leaves x where the row before has ended
next_line_keep_x(self) ==
    LET k == next_key(self)
    IN  [k EXCEPT !.y = k.y + One]

\* KleProps::next_line(&mut self)
next_line(self) ==
    LET k == next_key(self)
    IN  [k EXCEPT !.x = k.rx, !.y = k.y + One]

\* a build_legends that keeps the last 12 lines of a longer string
build_legends_last_lines(self, legends) ==
    LET lines == Lines(legends)
        skip == IF Len(lines) > NUM_LEGENDS THEN Len(lines) - NUM_LEGENDS ELSE 0
    IN  [k \in 1 .. Min(Len(lines), NUM_LEGENDS) |->
            IF lines[k + skip] # ""
            THEN Some([text |-> lines[k + skip],
                       size |-> self.fa[k - 1],
                       color |-> self.ta[k - 1]])
            ELSE None]

\* a build_legends that makes a legend of a blank line too
build_legends_keep_blank(self, legends) ==
    LET lines == Lines(legends)
    IN  [k \in 1 .. Min(Len(lines), NUM_LEGENDS) |->
            Some([text |-> lines[k],
                  size |-> self.fa[k - 1],
                  color |-> self.ta[k - 1]])]

\* the iterator build_key hands to realign_legends: the lines zipped with
\* the font-size and colour arrays (so at most NUM_LEGENDS items), a blank
\* line giving None
build_legends(self, legends) ==
    LET lines == Lines(legends)
    IN  [k \in 1 .. Min(Len(lines), NUM_LEGENDS) |->
            IF lines[k] # ""
            THEN Some([text |-> lines[k],
                       size |-> self.fa[k - 1],
                       color |-> self.ta[k - 1]])
            ELSE None]

\* a build_key whose legends take the font size and colour of the slot they
\* land in
build_key_style_by_slot(self, legends) ==
    [ legends |->
          [j \in Slots |->
              The({ IF l = None THEN None
                    ELSE Some([text |-> l[1].text, size |-> self.fa[j],
                               color |-> self.ta[j]])
                  : l \in {realign_legends(build_legends(self, legends), self.a)[j]} })],
      color |-> self.c,
      x |-> self.x, y |-> self.y,
      width |-> self.w, height |-> self.h,
      x2 |-> self.x2, y2 |-> self.y2,
      width2 |-> self.w2, height2 |-> self.h2,
      rotation |-> self.r, rx |-> self.rx, ry |-> self.ry,
      profile |-> self.p,
      ghosted |-> self.g,
      switch |-> [mount |-> self.sm, brand |-> self.sb, typ |-> self.st],
      stepped |-> self.l, homing |-> self.n, decal |-> self.d ]

\* KleProps::build_key(&self, legends)
build_key(self, legends) ==
    [ legends |-> realign_legends(build_legends(self, legends), self.a),
      color |-> self.c,
      x |-> self.x, y |-> self.y,
      width |-> self.w, height |-> self.h,
      x2 |-> self.x2, y2 |-> self.y2,
      width2 |-> self.w2, height2 |-> self.h2,
      rotation |-> self.r, rx |-> self.rx, ry |-> self.ry,
      profile |-> self.p,
      ghosted |-> self.g,
      switch |-> [mount |-> self.sm, brand |-> self.sb, typ |-> self.st],
      stepped |-> self.l, homing |-> self.n, decal |-> self.d ]

----------------------------------------------------------------------------
(* JSON values, as the decoder hands them to the Deserialize impls.  A     *)
(* value is a tagged tuple; a number n stands for n / One; an object is    *)
(* the sequence of its <<key, value>> members in document order.           *)

JNull == <<"null">>
JBool(b) == <<"bool", b>>
JNum(n) == <<"num", n>>
JStr(segs) == <<"str", segs>>
JArr(items) == <<"arr", items>>
JObj(members) == <<"obj", members>>

\* serde errors: what kind, and the offending value where one is named
InvalidType(v, exp) == [kind |-> "invalid_type", unexpected |-> v, expected |-> exp]
InvalidValue(v, exp) == [kind |-> "invalid_value", unexpected |-> v, expected |-> exp]
InvalidLength(n, exp) == [kind |-> "invalid_length", unexpected |-> n, expected |-> exp]
DuplicateField(k) == [kind |-> "duplicate_field", unexpected |-> k, expected |-> ""]
NoVariant(enum) ==
    [kind |-> "no_variant", unexpected |-> <<>>,
     expected |-> "data did not match any variant of untagged enum " \o enum]

\* Result<Vec<T>, E> from a sequence of Result<T, E>: the first error wins
Collect(rs) ==
    The({ The({ IF bad # {}
                THEN Err(r[CHOOSE i \in bad : \A j \in bad : i <= j].e)
                ELSE Ok([i \in 1 .. Len(r) |-> r[i].v])
              : bad \in {{i \in 1 .. Len(r) : ~r[i].ok}} })
        : r \in {rs} })

\* Option<T>::deserialize: null is None; for anything else the result is
\* inner, that of T::deserialize on v
de_option(v, inner) ==
    IF v = JNull THEN Ok(None)
    ELSE The({ IF r.ok THEN Ok(Some(r.v)) ELSE r : r \in {inner} })

de_f64(v) == IF v[1] = "num" THEN Ok(v[2]) ELSE Err(InvalidType(v, "f64"))
de_bool(v) == IF v[1] = "bool" THEN Ok(v[2]) ELSE Err(InvalidType(v, "a boolean"))
de_String(v) == IF v[1] = "str" THEN Ok(v[2]) ELSE Err(InvalidType(v, "a string"))
\* usize::deserialize: a non-negative whole number
de_usize(v) ==
    IF v[1] = "num" /\ v[2] >= 0 /\ v[2] % One = 0
    THEN Ok(v[2] \div One)
    ELSE Err(InvalidType(v, "usize"))

RangeText(max) == IF max = FONT_MAX THEN "0 <= x <= 9" ELSE "0 <= x <= 7"

\* <BoundedUsize<MAX, DEF> as Deserialize>::deserialize
BoundedUsize_deserialize(max, v) ==
    The({ IF ~u.ok THEN u
          ELSE IF BoundedUsize_new(max, u.v).ok
          THEN Ok(u.v)
          ELSE Err(InvalidValue(u.v, RangeText(max)))
        : u \in {de_usize(v)} })

\* a FontSize that takes any unsigned integer
de_FontSize_unbounded(v) == de_usize(v)

de_FontSize(v) == BoundedUsize_deserialize(FONT_MAX, v)
de_Alignment(v) == BoundedUsize_deserialize(MAX_ALIGNMENT, v)

\* Vec<FontSize>::deserialize
de_Vec_FontSize(v) ==
    IF v[1] = "arr"
    THEN Collect([i \in 1 .. Len(v[2]) |-> de_FontSize(v[2][i])])
    ELSE Err(InvalidType(v, "a sequence"))

\* csscolorparser::parse followed by to_rgba8, on the literals the model
\* uses; any other literal is not a colour
CssColors == {"#f00", "#00f", "#ba9", "#191919", "#4c2633"}
csscolorparser_parse(lit) ==
    CASE lit = "#f00" -> Ok(<<255, 0, 0, 255>>)
      [] lit = "#00f" -> Ok(<<0, 0, 255, 255>>)
      [] lit = "#ba9" -> Ok(<<187, 170, 153, 255>>)
      [] lit = "#191919" -> Ok(<<25, 25, 25, 255>>)
      [] lit = "#4c2633" -> Ok(<<76, 38, 51, 255>>)
      [] OTHER -> Err("not a colour")

\* color_from_str on one line of text
color_from_str(lit) ==
    The({ IF r.ok THEN r ELSE Err(InvalidValue(lit, "a CSS color value"))
        : r \in {csscolorparser_parse(lit)} })

\* de_color: Option<String>, then color_from_str on the whole string (the
\* model's colour fields hold one-line strings)
de_color(v) ==
    The({ IF ~s.ok THEN s
          ELSE IF s.v = None THEN Ok(None)
          ELSE The({ IF r.ok THEN Ok(Some(r.v)) ELSE r
                   : r \in {IF Len(Unwrap(s.v)) = 1
                            THEN color_from_str(Unwrap(s.v)[1])
                            ELSE Err(InvalidValue("", "a CSS color value"))} })
        : s \in {de_option(v, de_String(v))} })

\* a de_nl_delimited_colors that takes an unparseable line for a blank one
de_nl_delimited_colors_lenient(v) ==
    The({ IF ~s.ok THEN s
          ELSE IF s.v = None THEN Ok(None)
          ELSE Ok(Some([i \in 1 .. Len(Lines(Unwrap(s.v))) |->
                         The({ IF c.ok THEN Some(c.v) ELSE None
                             : c \in {color_from_str(Lines(Unwrap(s.v))[i])} })]))
        : s \in {de_option(v, de_String(v))} })

\* de_nl_delimited_colors: Option<String>, each line blank (None) or a colour
de_nl_delimited_colors(v) ==
    The({ IF ~s.ok THEN s
          ELSE IF s.v = None THEN Ok(None)
          ELSE The({ IF r.ok THEN Ok(Some(r.v)) ELSE r
                   : r \in {Collect([i \in 1 .. Len(Lines(Unwrap(s.v))) |->
                              IF Lines(Unwrap(s.v))[i] # ""
                              THEN The({ IF c.ok THEN Ok(Some(c.v)) ELSE c
                                       : c \in {color_from_str(Lines(Unwrap(s.v))[i])} })
                              ELSE Ok(None)])} })
        : s \in {de_option(v, de_String(v))} })

----------------------------------------------------------------------------
(* de/json.rs: the derived Deserialize impls *)

\* A derived struct visitor.  From a JSON object (visit_map) the members
\* are read in order: an unknown key is ignored, a repeated known key is an
\* error, a known key goes to its field's deserializer.  From a JSON array
\* (visit_seq; serde's buffered Content, which the untagged enums go
\* through, offers a sequence to a struct) the items are the fields in
\* declared order, and items left over are an error.  A field not supplied
\* takes dflt[field]; seq_default says whether that also holds in visit_seq
\* (#[serde(default)] on the container).
RECURSIVE de_field(_, _, _)
de_struct(struct, fields, dflt, seq_default, v) ==
    IF v[1] = "obj"
    THEN The({ The({ IF ~all.ok THEN all
                     ELSE Ok([k \in Range(fields) |->
                                IF \E i \in 1 .. Len(v[2]) : v[2][i][1] = k
                                THEN res[CHOOSE i \in 1 .. Len(v[2]) : v[2][i][1] = k].v
                                ELSE dflt[k]])
                   : all \in {Collect(res)} })
             : res \in {[i \in 1 .. Len(v[2]) |->
                          IF v[2][i][1] \notin Range(fields) THEN Ok(<<>>)
                          ELSE IF \E j \in 1 .. (i - 1) : v[2][j][1] = v[2][i][1]
                          THEN Err(DuplicateField(v[2][i][1]))
                          ELSE de_field(struct, v[2][i][1], v[2][i][2])]} })
    ELSE IF v[1] = "arr"
    THEN The({ The({ IF ~all.ok THEN all
                     ELSE IF Len(v[2]) < Len(fields) /\ ~seq_default
                     THEN Err(InvalidLength(Len(v[2]), "struct"))
                     ELSE IF Len(v[2]) > Len(fields)
                     THEN Err(InvalidLength(Len(v[2]), "fewer elements in sequence"))
                     ELSE Ok([k \in Range(fields) |->
                                LET i == CHOOSE j \in 1 .. Len(fields) : fields[j] = k
                                IN  IF i <= Len(res) THEN res[i].v ELSE dflt[k]])
                   : all \in {Collect(res)} })
             : res \in {[i \in 1 .. Min(Len(v[2]), Len(fields)) |->
                          de_field(struct, fields[i], v[2][i])]} })
    ELSE Err(InvalidType(v, "struct"))

\* KlePropsObject: the fields in declared order
KlePropsObject_fields ==
    <<"x", "y", "w", "h", "x2", "y2", "w2", "h2", "r", "rx", "ry",
      "l", "n", "d", "g", "sm", "sb", "st", "c", "t", "a", "p",
      "f", "f2", "fa">>

KlePropsObject_field(k, v) ==
    CASE k \in {"x", "y", "w", "h", "x2", "y2", "w2", "h2", "r", "rx", "ry"} ->
            de_option(v, de_f64(v))
      [] k \in {"l", "n", "d", "g"} -> de_option(v, de_bool(v))
      [] k \in {"sm", "sb", "st", "p"} -> de_option(v, de_String(v))
      [] k = "c" -> de_color(v)
      [] k = "t" -> de_nl_delimited_colors(v)
      [] k = "a" -> de_option(v, de_Alignment(v))
      [] k \in {"f", "f2"} -> de_option(v, de_FontSize(v))
      [] k = "fa" -> de_option(v, de_Vec_FontSize(v))

de_KlePropsObject(v) ==
    de_struct("KlePropsObject", KlePropsObject_fields,
              KlePropsObject_default, TRUE, v)

\* KleBackground { name, style }: no container default, but a missing
\* Option member of an object is None
KleBackground_fields == <<"name", "style">>
KleBackground_default == [name |-> None, style |-> None]
KleBackground_field(k, v) == de_option(v, de_String(v))
de_KleBackground(v) ==
    de_struct("KleBackground", KleBackground_fields,
              KleBackground_default, FALSE, v)

\* KleMetadata (rename_all = "camelCase"): the fields in declared order,
\* under their JSON names
KleMetadata_fields ==
    <<"author", "backcolor", "background", "name", "notes", "radii",
      "switchMount", "switchBrand", "switchType", "css", "pcb", "plate">>

KleMetadata_default ==
    [author |-> None, backcolor |-> None, background |-> None,
     name |-> None, notes |-> None, radii |-> None,
     switchMount |-> None, switchBrand |-> None, switchType |-> None,
     css |-> None, pcb |-> None, plate |-> None]

KleMetadata_field(k, v) ==
    CASE k \in {"author", "name", "notes", "radii", "switchMount",
                "switchBrand", "switchType", "css"} -> de_option(v, de_String(v))
      [] k = "backcolor" -> de_color(v)
      [] k = "background" -> de_option(v, de_KleBackground(v))
      [] k \in {"pcb", "plate"} -> de_option(v, de_bool(v))

de_KleMetadata(v) ==
    de_struct("KleMetadata", KleMetadata_fields,
              KleMetadata_default, TRUE, v)

\* the deserializer of field k of a struct, as the derived impl selects it
de_field(struct, k, v) ==
    CASE struct = "KlePropsObject" -> KlePropsObject_field(k, v)
      [] struct = "KleBackground" -> KleBackground_field(k, v)
      [] struct = "KleMetadata" -> KleMetadata_field(k, v)

\* a row element after deserialisation
Props(o) == [tag |-> "Props", props |-> o, legend |-> <<>>]
Legend(str) == [tag |-> "Legend", props |-> <<>>, legend |-> str]

\* a KleLegendsOrProps that reports the error of the Props variant
de_KleLegendsOrProps_keep_error(v) ==
    The({ IF o.ok THEN Ok(Props(o.v))
          ELSE The({ IF str.ok THEN Ok(Legend(str.v)) ELSE o
                   : str \in {de_String(v)} })
        : o \in {de_KlePropsObject(v)} })

\* KleLegendsOrProps (untagged): Props is tried first, then Legend; the
\* error of a variant that did not match is dropped
de_KleLegendsOrProps(v) ==
    The({ IF o.ok THEN Ok(Props(o.v))
          ELSE The({ IF str.ok THEN Ok(Legend(str.v))
                     ELSE Err(NoVariant("KleLegendsOrProps"))
                   : str \in {de_String(v)} })
        : o \in {de_KlePropsObject(v)} })

\* Vec<KleLegendsOrProps>::deserialize: a row
de_Row(v) ==
    IF v[1] = "arr"
    THEN Collect([i \in 1 .. Len(v[2]) |-> de_KleLegendsOrProps(v[2][i])])
    ELSE Err(InvalidType(v, "a sequence"))

\* MapOrSeq (untagged): Seq is tried first, then Map
de_MapOrSeq(v) ==
    The({ IF row.ok THEN Ok([tag |-> "Seq", row |-> row.v, meta |-> <<>>])
          ELSE The({ IF meta.ok
                     THEN Ok([tag |-> "Map", row |-> <<>>, meta |-> meta.v])
                     ELSE Err(NoVariant("MapOrSeq"))
                   : meta \in {de_KleMetadata(v)} })
        : row \in {de_Row(v)} })

\* a visit_seq that skips what is not an array after the first item
visit_seq_skip_non_rows(items) ==
    IF Len(items) = 0
    THEN Ok([meta |-> KleMetadata_default, layout |-> <<>>])
    ELSE The({ IF ~first.ok THEN first
               ELSE The({ IF ~rest.ok THEN rest
                          ELSE IF first.v.tag = "Map"
                          THEN Ok([meta |-> first.v.meta, layout |-> rest.v])
                          ELSE Ok([meta |-> KleMetadata_default,
                                   layout |-> <<first.v.row>> \o rest.v])
                        : rest \in {Collect([i \in 1 .. Len(arrays) |->
                                               de_Row(arrays[i])])} })
             : first \in {de_MapOrSeq(items[1])},
               arrays \in {SelectSeq(Tail(items), LAMBDA x : x[1] = "arr")} })

\* KleFileVisitor::visit_seq on the items of the top-level array
visit_seq(items) ==
    IF Len(items) = 0
    THEN Ok([meta |-> KleMetadata_default, layout |-> <<>>])
    ELSE The({ IF ~first.ok THEN first
               ELSE The({ IF ~rest.ok THEN rest
                          ELSE IF first.v.tag = "Map"
                          THEN Ok([meta |-> first.v.meta, layout |-> rest.v])
                          ELSE Ok([meta |-> KleMetadata_default,
                                   layout |-> <<first.v.row>> \o rest.v])
                        : rest \in {Collect([i \in 1 .. (Len(items) - 1) |->
                                               de_Row(items[i + 1])])} })
             : first \in {de_MapOrSeq(items[1])} })

\* <KleKeyboard as Deserialize>::deserialize: deserialize_seq wants an array
de_KleKeyboard(v) ==
    IF v[1] = "arr" THEN visit_seq(v[2]) ELSE Err(InvalidType(v, "a sequence"))

----------------------------------------------------------------------------
(* de/mod.rs: KleLayoutIterator; lib.rs: Keyboard and KeyIterator *)

\* Background::from(KleBackground)
Background_from(value) ==
    [name |-> UnwrapOr(value.name, String_new),
     style |-> UnwrapOr(value.style, String_new)]

Background_default == [name |-> String_new, style |-> String_new]

\* a from that takes the plate mount from pcb and the PCB mount from plate,
\* and the author from the name when there is no author
Metadata_from_crossed(value) ==
    [background_color |-> UnwrapOr(value.backcolor, COLOR_BACKGROUND),
     background |-> IF IsSome(value.background)
                    THEN Background_from(Unwrap(value.background))
                    ELSE Background_default,
     radii |-> UnwrapOr(value.radii, String_new),
     name |-> UnwrapOr(value.name, String_new),
     author |-> UnwrapOr(OrElse(value.author, value.name), String_new),
     switch |-> [mount |-> UnwrapOr(value.switchMount, String_new),
                 brand |-> UnwrapOr(value.switchBrand, String_new),
                 typ |-> UnwrapOr(value.switchType, String_new)],
     plate_mount |-> UnwrapOr(value.pcb, FALSE),
     pcb_mount |-> UnwrapOr(value.plate, FALSE),
     notes |-> UnwrapOr(value.notes, String_new)]

\* Metadata::from(KleMetadata)
Metadata_from(value) ==
    [background_color |-> UnwrapOr(value.backcolor, COLOR_BACKGROUND),
     background |-> IF IsSome(value.background)
                    THEN Background_from(Unwrap(value.background))
                    ELSE Background_default,
     radii |-> UnwrapOr(value.radii, String_new),
     name |-> UnwrapOr(value.name, String_new),
     author |-> UnwrapOr(value.author, String_new),
     switch |-> [mount |-> UnwrapOr(value.switchMount, String_new),
                 brand |-> UnwrapOr(value.switchBrand, String_new),
                 typ |-> UnwrapOr(value.switchType, String_new)],
     plate_mount |-> UnwrapOr(value.plate, FALSE),
     pcb_mount |-> UnwrapOr(value.pcb, FALSE),
     notes |-> UnwrapOr(value.notes, String_new)]

\* Metadata::default()
Metadata_default ==
    [background_color |-> COLOR_BACKGROUND,
     background |-> Background_default,
     radii |-> String_new, name |-> String_new, author |-> String_new,
     switch |-> [mount |-> String_new, brand |-> String_new, typ |-> String_new],
     plate_mount |-> FALSE, pcb_mount |-> FALSE, notes |-> String_new]

\* a new that advances to a row before the first row
KleLayoutIterator_new_advanced(kle) ==
    [state |-> next_line(KleProps_default),
     row_iter |-> IF kle = <<>> THEN <<>> ELSE Tail(kle),
     key_iter |-> IF kle = <<>> THEN <<>> ELSE Head(kle)]

\* KleLayoutIterator::new(kle): the first row, if any, becomes key_iter
KleLayoutIterator_new(kle) ==
    [state |-> KleProps_default,
     row_iter |-> IF kle = <<>> THEN <<>> ELSE Tail(kle),
     key_iter |-> IF kle = <<>> THEN <<>> ELSE Head(kle)]

\* a next that advances the cursor before it builds the key
RECURSIVE KleLayoutIterator_next_advance_first(_)
KleLayoutIterator_next_advance_first(self) ==
    IF self.key_iter = <<>> /\ self.row_iter = <<>>
    THEN <<self, None>>
    ELSE LET at_row_end == self.key_iter = <<>>
             it == IF at_row_end
                   THEN [state |-> next_line(self.state),
                         row_iter |-> Tail(self.row_iter),
                         key_iter |-> Head(self.row_iter)]
                   ELSE self
         IN  IF it.key_iter = <<>>
             THEN <<it, None>>
             ELSE LET el == Head(it.key_iter)
                      rest == [it EXCEPT !.key_iter = Tail(it.key_iter)]
                  IN  IF el.tag = "Props"
                      THEN KleLayoutIterator_next_advance_first(
                              [rest EXCEPT !.state = update(rest.state, el.props)])
                      ELSE <<[rest EXCEPT !.state = next_key(rest.state)],
                             Some(build_key(next_key(rest.state), el.legend))>>

\* a next that hands out a key for every element: after an overlay it
\* returns a key without legends
KleLayoutIterator_next_every_element(self) ==
    IF self.key_iter = <<>> /\ self.row_iter = <<>>
    THEN <<self, None>>
    ELSE LET at_row_end == self.key_iter = <<>>
             it == IF at_row_end
                   THEN [state |-> next_line(self.state),
                         row_iter |-> Tail(self.row_iter),
                         key_iter |-> Head(self.row_iter)]
                   ELSE self
         IN  IF it.key_iter = <<>>
             THEN <<it, None>>
             ELSE LET el == Head(it.key_iter)
                      rest == [it EXCEPT !.key_iter = Tail(it.key_iter)]
                  IN  IF el.tag = "Props"
                      THEN <<[rest EXCEPT !.state = update(rest.state, el.props)],
                             Some(build_key(update(rest.state, el.props), String_new))>>
                      ELSE <<[rest EXCEPT !.state = next_key(rest.state)],
                             Some(build_key(rest.state, el.legend))>>

\* <KleLayoutIterator as Iterator>::next: <<the iterator after the call,
\* the Option<Key> returned>>.  An element comes from key_iter, or, when
\* key_iter is at its end, from the next row after next_line(); `?` returns
\* None when there is no next row and also when the next row has no first
\* element.  An overlay updates the cursor and the loop goes on; a legend
\* string ends the loop, the key is built, and next_key() follows.
RECURSIVE KleLayoutIterator_next(_)
KleLayoutIterator_next(self) ==
    IF self.key_iter = <<>> /\ self.row_iter = <<>>
    THEN <<self, None>>
    ELSE LET at_row_end == self.key_iter = <<>>
             it == IF at_row_end
                   THEN [state |-> next_line(self.state),
                         row_iter |-> Tail(self.row_iter),
                         key_iter |-> Head(self.row_iter)]
                   ELSE self
         IN  IF it.key_iter = <<>>
             THEN <<it, None>>
             ELSE LET el == Head(it.key_iter)
                      rest == [it EXCEPT !.key_iter = Tail(it.key_iter)]
                  IN  IF el.tag = "Props"
                      THEN KleLayoutIterator_next(
                              [rest EXCEPT !.state = update(rest.state, el.props)])
                      ELSE <<[rest EXCEPT !.state = next_key(rest.state)],
                             Some(build_key(rest.state, el.legend))>>

\* a collect that asks again after an end while rows remain
RECURSIVE collect_past_end(_)
collect_past_end(it) ==
    The({ IF r[2] = None
          THEN (IF r[1].key_iter = <<>> /\ r[1].row_iter = <<>>
                THEN <<>> ELSE collect_past_end(r[1]))
          ELSE <<Unwrap(r[2])>> \o collect_past_end(r[1])
        : r \in {KleLayoutIterator_next(it)} })

\* Iterator::collect into a Vec: next() until it first returns None
RECURSIVE collect(_)
collect(it) ==
    The({ IF r[2] = None THEN <<>> ELSE <<Unwrap(r[2])>> \o collect(r[1])
        : r \in {KleLayoutIterator_next(it)} })

\* <Keyboard as Deserialize>::deserialize
Keyboard_deserialize(v) ==
    The({ IF ~kle.ok THEN kle
          ELSE Ok([metadata |-> Metadata_from(kle.v.meta),
                   keys |-> collect(KleLayoutIterator_new(kle.v.layout))])
        : kle \in {de_KleKeyboard(v)} })

\* <KeyIterator as Deserialize>::deserialize
KeyIterator_deserialize(v) ==
    The({ IF ~kle.ok THEN kle
          ELSE Ok(KleLayoutIterator_new(kle.v.layout))
        : kle \in {de_KleKeyboard(v)} })

----------------------------------------------------------------------------
(* Inputs of the key-building specification *)

\* the longest legend string, in "\n"-separated segments
MaxSegs == 12

\* the text of a non-blank line is chosen by its raw index, so that a
\* legend found in a key tells which line it came from
Letters == <<"A", "B", "C", "D", "E", "F", "G", "H",
             "I", "J", "K", "L", "M", "N", "O", "P">>

\* every legend string of up to MaxSegs segments, each blank or not
Blobs ==
    UNION { { [k \in 1 .. n |-> IF k \in S THEN Letters[k] ELSE ""] :
                S \in SUBSET (1 .. n) } : n \in 1 .. MaxSegs }

\* a cursor whose font sizes and colours differ from slot to slot
VariedCursor ==
    [KleProps_default EXCEPT
        !.fa = [i \in Slots |-> (i % FONT_MAX) + 1],
        !.ta = [i \in Slots |-> <<i, 2 * i, 255 - i, 255>>]]

SampleCursors == {KleProps_default, VariedCursor}

Alignments == 0 .. MAX_ALIGNMENT

NoOp == [name |-> "none", arg |-> <<>>]
NoIter == <<>>
NoResult == [kind |-> "none"]

----------------------------------------------------------------------------
(* SpecKey: build_key applied to every sample cursor, alignment and legend *)
(* string                                                                  *)

InitKey ==
    /\ pc = "idle"
    /\ \E c \in SampleCursors, a \in Alignments : props = [c EXCEPT !.a = a]
    /\ prev = props
    /\ op = NoOp
    /\ key = None
    /\ calls = 0
    /\ runs = <<>>
    /\ doc = <<>>
    /\ entry = "none"
    /\ result = NoResult
    /\ iter = NoIter
    /\ yielded = <<>>

CallBuildKey ==
    /\ pc = "idle"
    /\ \E b \in Blobs :
        /\ op' = [name |-> "build_key", arg |-> b]
        /\ key' = Some(build_key(props, b))
    /\ pc' = "built"
    /\ calls' = calls + 1
    /\ UNCHANGED <<props, prev, doc, entry, result, iter, yielded, runs>>

NextKey == CallBuildKey

SpecKey == InitKey /\ [][NextKey]_vars

\* the lines of the legend string of the last build_key, and the raw
\* indices build_key reads (the zip with the 12-slot arrays ends at 12)
BuiltLines == Lines(op.arg)
BuiltRaw == 0 .. (Min(Len(BuiltLines), NUM_LEGENDS) - 1)
BuiltKey == Unwrap(key)

\* C1: for every alignment and every legend string, each non-blank line at
\* raw index i is in the key's legend array at slot table[a][i], and every
\* slot no non-blank line maps to is empty.
C1_LegendAtTableSlot ==
    pc = "built" =>
        /\ \A i \in BuiltRaw :
              BuiltLines[i + 1] # "" =>
                 /\ IsSome(BuiltKey.legends[Table(props.a, i)])
                 /\ Unwrap(BuiltKey.legends[Table(props.a, i)]).text = BuiltLines[i + 1]
        /\ \A j \in Slots :
              (\A i \in BuiltRaw : BuiltLines[i + 1] # "" => Table(props.a, i) # j)
                 => BuiltKey.legends[j] = None

\* the raw indexes of the non-blank lines, and the slots of the key that
\* hold a legend
BuiltPopulated == {i \in BuiltRaw : BuiltLines[i + 1] # ""}
BuiltFilled == {j \in Slots : BuiltKey.legends[j] # None}

\* C14: for every alignment and every legend string of up to 12 lines, the
\* key has as many legends as the string has non-blank lines, and every
\* non-blank line is the text of exactly one slot: no two lines share a
\* slot and none is lost.
C14_RealignKeepsLegends ==
    pc = "built" =>
        /\ Cardinality(BuiltFilled) = Cardinality(BuiltPopulated)
        /\ \A i \in BuiltPopulated :
              Cardinality({j \in BuiltFilled :
                              BuiltKey.legends[j][1].text = BuiltLines[i + 1]}) = 1
        /\ \A j \in BuiltFilled :
              \E i \in BuiltPopulated :
                  BuiltKey.legends[j][1].text = BuiltLines[i + 1]

\* a key has been built under alignment 0 from twelve lines of which five
\* are blank
C14_SparseLegendsBuilt ==
    /\ pc = "built"
    /\ props.a = 0
    /\ Len(BuiltLines) = NUM_LEGENDS
    /\ Cardinality(BuiltPopulated) = 7
    /\ Cardinality(BuiltFilled) = 7

\* C26: every row of the table is a bijection on 0..11; and for every
\* alignment and every legend string of 12 lines (as str::lines counts
\* them), slot table[a][i] of the key holds line i, and is empty if line i
\* is blank; under alignment 4 the lines A..L come out as
\* A,I,C,G,J,H,B,K,D,F,E,L.
C26_FullBlobPermutation ==
    /\ \A a \in 0 .. 7 : { Table(a, i) : i \in Slots } = Slots
    /\ (pc = "built" /\ Len(BuiltLines) = NUM_LEGENDS) =>
          \A i \in Slots :
              LET slot == BuiltKey.legends[Table(props.a, i)]
              IN  IF BuiltLines[i + 1] = "" THEN slot = None
                  ELSE slot # None /\ slot[1].text = BuiltLines[i + 1]
    /\ (pc = "built" /\ props.a = 4 /\ op.arg = SubSeq(Letters, 1, NUM_LEGENDS)) =>
          [j \in 1 .. NUM_LEGENDS |-> BuiltKey.legends[j - 1][1].text]
             = <<"A", "I", "C", "G", "J", "H", "B", "K", "D", "F", "E", "L">>

\* a key has been built under alignment 2 from twelve lines of which the
\* second, "B", is in slot 0 and the first is blank and leaves slot 3 empty
C26_TwelveLinesBuilt ==
    /\ pc = "built"
    /\ props.a = 2
    /\ Len(BuiltLines) = NUM_LEGENDS
    /\ BuiltLines[1] = "" /\ BuiltLines[2] = "B"
    /\ BuiltKey.legends[0] # None
    /\ BuiltKey.legends[0][1].text = "B"
    /\ BuiltKey.legends[3] = None
    /\ Cardinality(BuiltFilled) = 9

\* C27: for every cursor, alignment and legend string, the legend with the
\* text of line i has the font size fa[i] and the colour ta[i] of the cursor
\* the key is built from, whichever slot of the key it is in.
C27_StyleByLineIndex ==
    pc = "built" =>
        \A i \in BuiltPopulated :
            \E j \in BuiltFilled :
                /\ BuiltKey.legends[j][1].text = BuiltLines[i + 1]
                /\ BuiltKey.legends[j][1].size = props.fa[i]
                /\ BuiltKey.legends[j][1].color = props.ta[i]

\* on the cursor whose sizes and colours differ from slot to slot, line 1
\* of twelve has landed in slot 6 under alignment 0 with the size and colour
\* of index 1
C27_MovedLegendKeepsStyle ==
    /\ pc = "built"
    /\ props = [VariedCursor EXCEPT !.a = 0]
    /\ Len(BuiltLines) = NUM_LEGENDS
    /\ BuiltKey.legends[6] # None
    /\ BuiltKey.legends[6][1].text = "B"
    /\ BuiltKey.legends[6][1].size = props.fa[1]
    /\ BuiltKey.legends[6][1].size # props.fa[6]
    /\ BuiltKey.legends[6][1].color = props.ta[1]

----------------------------------------------------------------------------
(* SpecProps: a caller drives one KleProps cursor, starting from           *)
(* KleProps::default(), with update, next_key, next_line and build_key     *)

\* how many operations the caller makes
MaxOps == 3

\* overlays that set font sizes: f, f2 and fa each absent or present, and
\* one whose fa has 13 entries
FontOverlays ==
    { [KlePropsObject_default EXCEPT !.f = f, !.f2 = f2, !.fa = fa] :
        f \in {None, Some(2), Some(5)},
        f2 \in {None, Some(4)},
        fa \in {None, Some(<<>>), Some(<<4, 0, 6>>)} }
    \cup { [KlePropsObject_default EXCEPT
              !.f2 = Some(4),
              !.fa = Some(<<1, 2, 3, 0, 5, 6, 7, 8, 9, 1, 0, 3, 9>>)] }

\* overlays that move the cursor or size the key
GeometryOverlays ==
    { [KlePropsObject_default EXCEPT !.x = Some(One)],
      [KlePropsObject_default EXCEPT !.x = Some(-2), !.y = Some(1)],
      [KlePropsObject_default EXCEPT !.w = Some(2 * One)],
      [KlePropsObject_default EXCEPT !.w2 = Some(10), !.h = Some(2 * One)],
      [KlePropsObject_default EXCEPT !.rx = Some(One), !.x = Some(One)],
      [KlePropsObject_default EXCEPT !.ry = Some(One), !.r = Some(15 * One)],
      [KlePropsObject_default EXCEPT !.r = Some(15 * One), !.x = Some(One)],
      [KlePropsObject_default EXCEPT !.x2 = Some(1), !.y2 = Some(2), !.h2 = Some(6)] }

\* overlays with a legend colour array: empty, without a first entry, the
\* one of test_kle_props_update, and one of a single entry
ColorOverlays ==
    { [KlePropsObject_default EXCEPT !.t = Some(arr)] :
        arr \in { <<>>,
                  <<None, Some(<<255, 0, 0, 255>>)>>,
                  <<Some(<<25, 25, 25, 255>>), None, Some(<<76, 38, 51, 255>>)>>,
                  <<Some(<<0, 0, 255, 255>>)>> } }

Overlays == FontOverlays \cup GeometryOverlays \cup ColorOverlays

SampleLegends == {Str("A"), <<"A", "", "C">>}

InitProps ==
    /\ pc = "cursor"
    /\ props = KleProps_default
    /\ prev = KleProps_default
    /\ op = NoOp
    /\ key = None
    /\ calls = 0
    /\ runs = <<>>
    /\ doc = <<>>
    /\ entry = "none"
    /\ result = NoResult
    /\ iter = NoIter
    /\ yielded = <<>>

CallUpdate ==
    /\ calls < MaxOps
    /\ \E o \in Overlays :
        /\ props' = update(props, o)
        /\ op' = [name |-> "update", arg |-> o]
    /\ prev' = props
    /\ calls' = calls + 1
    /\ UNCHANGED <<pc, key, doc, entry, result, iter, yielded, runs>>

CallNextKey ==
    /\ calls < MaxOps
    /\ props' = next_key(props)
    /\ op' = [name |-> "next_key", arg |-> <<>>]
    /\ prev' = props
    /\ calls' = calls + 1
    /\ UNCHANGED <<pc, key, doc, entry, result, iter, yielded, runs>>

CallNextLine ==
    /\ calls < MaxOps
    /\ props' = next_line(props)
    /\ op' = [name |-> "next_line", arg |-> <<>>]
    /\ prev' = props
    /\ calls' = calls + 1
    /\ UNCHANGED <<pc, key, doc, entry, result, iter, yielded, runs>>

CallBuildKeyOnCursor ==
    /\ calls < MaxOps
    /\ \E b \in SampleLegends :
        /\ key' = Some(build_key(props, b))
        /\ op' = [name |-> "build_key", arg |-> b]
    /\ prev' = props
    /\ calls' = calls + 1
    /\ UNCHANGED <<pc, props, doc, entry, result, iter, yielded, runs>>

NextProps == CallUpdate \/ CallNextKey \/ CallNextLine \/ CallBuildKeyOnCursor

SpecProps == InitProps /\ [][NextProps]_vars

\* the slots 1..11 all hold v and slot 0 holds v0
FontSizes(v0, v) == [i \in Slots |-> IF i = 0 THEN v0 ELSE v]

\* C10: after update the font sizes are replaced as a whole, fa before f2
\* before f before the sizes carried over.  With fa, slot i is fa[i] where
\* fa has a positive entry and the fallback elsewhere; with f2 and no fa,
\* slot 0 is the fallback and slots 1..11 are f2; with f alone all 12 slots
\* are f; with none of the three the array is as before.  The fallback is f
\* if given, else the one carried over.  {f:2,f2:4} on a fresh cursor gives
\* [2,4,4,4,4,4,4,4,4,4,4,4], and {f:5} after it gives twelve times 5.
C10_FontSizeReplacement ==
    op.name = "update" =>
        LET o == op.arg
            f == props.f
        IN  /\ f = UnwrapOr(o.f, prev.f)
            /\ o.fa # None =>
                  \A i \in Slots :
                      props.fa[i] = IF i < Len(o.fa[1]) /\ o.fa[1][i + 1] > 0
                                    THEN o.fa[1][i + 1] ELSE f
            /\ (o.fa = None /\ o.f2 # None) => props.fa = FontSizes(f, o.f2[1])
            /\ (o.fa = None /\ o.f2 = None /\ o.f # None) =>
                  props.fa = FontSizes(o.f[1], o.f[1])
            /\ (o.fa = None /\ o.f2 = None /\ o.f = None) => props.fa = prev.fa
            /\ (o.fa = None /\ o.f = Some(2) /\ o.f2 = Some(4)) =>
                  props.fa = FontSizes(2, 4)
            /\ (o.fa = None /\ o.f = Some(5) /\ o.f2 = None) =>
                  props.fa = FontSizes(5, 5)

\* {f:5} has been applied to a cursor whose sizes were [2,4,4,4,4,4,4,4,4,4,4,4]
C10_SecondOverlayApplied ==
    /\ op.name = "update"
    /\ op.arg = [KlePropsObject_default EXCEPT !.f = Some(5)]
    /\ prev.fa = FontSizes(2, 4)
    /\ prev.f = 2
    /\ calls = 2

\* the fields of the cursor that next_key and next_line carry over
PersistentFields == {"r", "rx", "ry", "g", "sm", "sb", "st", "c", "t", "ta",
                     "a", "p", "f", "fa"}

\* C12: next_key adds the width (and not the extent of the secondary
\* rectangle) to x, sets width, height, width2, height2 to 1, x2 and y2 to 0,
\* stepped, homing and decal to false, and leaves y and every persistent
\* field as it was.
C12_NextKeyFrame ==
    op.name = "next_key" =>
        /\ props.x = prev.x + prev.w
        /\ props.y = prev.y
        /\ props.w = One /\ props.h = One
        /\ props.w2 = One /\ props.h2 = One
        /\ props.x2 = 0 /\ props.y2 = 0
        /\ ~props.l /\ ~props.n /\ ~props.d
        /\ \A fld \in PersistentFields : props[fld] = prev[fld]
        /\ DOMAIN props = DOMAIN prev

\* next_key has been applied to a rotated cursor whose secondary rectangle
\* is wider than the key
C12_NextKeyAfterWideKey ==
    /\ op.name = "next_key"
    /\ prev.x2 + prev.w2 > prev.w
    /\ prev.r # 0
    /\ props.x = prev.x + One

\* C20: after update, if the overlay sets rx or ry, each anchor coordinate is
\* the overlay's value or else the previous one, and x and y are the resolved
\* anchor plus the overlay's x and y (0 when absent); if the overlay sets
\* neither, with or without r, rx and ry are the previous ones and x and y
\* are the previous x and y plus the overlay's x and y.
C20_AnchorRule ==
    op.name = "update" =>
        LET o == op.arg
            dx == IF o.x = None THEN 0 ELSE o.x[1]
            dy == IF o.y = None THEN 0 ELSE o.y[1]
        IN  IF o.rx # None \/ o.ry # None
            THEN /\ props.rx = (IF o.rx # None THEN o.rx[1] ELSE prev.rx)
                 /\ props.ry = (IF o.ry # None THEN o.ry[1] ELSE prev.ry)
                 /\ props.x = props.rx + dx
                 /\ props.y = props.ry + dy
            ELSE /\ props.rx = prev.rx
                 /\ props.ry = prev.ry
                 /\ props.x = prev.x + dx
                 /\ props.y = prev.y + dy

\* {"rx": 1, "x": 1} has been applied to a fresh cursor and gave x = 2
C20_AnchorThenDelta ==
    /\ op.name = "update"
    /\ prev = KleProps_default
    /\ op.arg.rx = Some(One) /\ op.arg.x = Some(One)
    /\ props.x = 2 * One
    /\ props.rx = One

\* C22: after update, width2 is the overlay's w2, else the overlay's w, else
\* 1, and height2 likewise from h2 and h; x2 and y2 are the overlay's or 0;
\* nothing of the secondary rectangle is taken from the cursor before.  An
\* overlay with w and no w2 gives width2 = width, and one with w2 and no w
\* gives width 1.
C22_SecondaryRectangle ==
    op.name = "update" =>
        LET o == op.arg
        IN  /\ props.w2 = (IF o.w2 # None THEN o.w2[1]
                           ELSE IF o.w # None THEN o.w[1] ELSE One)
            /\ props.h2 = (IF o.h2 # None THEN o.h2[1]
                           ELSE IF o.h # None THEN o.h[1] ELSE One)
            /\ props.x2 = (IF o.x2 # None THEN o.x2[1] ELSE 0)
            /\ props.y2 = (IF o.y2 # None THEN o.y2[1] ELSE 0)
            /\ (o.w # None /\ o.w2 = None) => props.w2 = props.w
            /\ (o.w2 # None /\ o.w = None) => props.w = One

\* {w: 2} has been applied to a cursor whose secondary rectangle was
\* (0.25, 0.5, 1, 1.5), and gave width2 = width = 2 and x2 = y2 = 0
C22_WidthAloneApplied ==
    /\ op.name = "update"
    /\ op.arg = [KlePropsObject_default EXCEPT !.w = Some(2 * One)]
    /\ prev.x2 = 1 /\ prev.y2 = 2 /\ prev.h2 = 6
    /\ props.w = 2 * One /\ props.w2 = 2 * One
    /\ props.x2 = 0 /\ props.y2 = 0 /\ props.h2 = One

\* C24: after update with a colour array, the fallback colour is the
\* array's first entry if the array has one and it is a colour, else the
\* fallback before; each of the 12 slots is the array's entry at its index
\* if there is one and it is a colour, else the new fallback, also past the
\* end of the array.  Without a colour array the fallback and the 12 slots
\* are as before.
C24_LegendColors ==
    op.name = "update" =>
        LET o == op.arg
            arr == o.t[1]
            t == IF Len(arr) >= 1 /\ arr[1] # None THEN arr[1][1] ELSE prev.t
        IN  IF o.t # None
            THEN /\ props.t = t
                 /\ \A i \in Slots :
                       props.ta[i] = (IF i < Len(arr) /\ arr[i + 1] # None
                                      THEN arr[i + 1][1] ELSE t)
            ELSE /\ props.t = prev.t
                 /\ props.ta = prev.ta

\* the array [none, red] has been applied to the cursor test_kle_props_update
\* ends with, and gave red in slot 1 and the fallback (25,25,25) elsewhere,
\* in slot 2 too
C24_FirstEntryAbsent ==
    /\ op.name = "update"
    /\ op.arg.t = Some(<<None, Some(<<255, 0, 0, 255>>)>>)
    /\ prev.t = <<25, 25, 25, 255>>
    /\ prev.ta[2] = <<76, 38, 51, 255>>
    /\ props.t = <<25, 25, 25, 255>>
    /\ props.ta[0] = <<25, 25, 25, 255>>
    /\ props.ta[1] = <<255, 0, 0, 255>>
    /\ props.ta[2] = <<25, 25, 25, 255>>

\* C25: after update with a font-size array fa of any length, with or
\* without f2, slot i is fa[i] if fa has an entry at i and it is above 0,
\* and else the new fallback; the new fallback is the overlay's f if it has
\* one and the fallback before if not, with or without fa.
C25_FontSizeArray ==
    op.name = "update" =>
        LET o == op.arg
            arr == o.fa[1]
            fallback == IF o.f # None THEN o.f[1] ELSE prev.f
        IN  /\ props.f = fallback
            /\ o.fa # None =>
                  \A i \in Slots :
                      /\ (i < Len(arr) /\ arr[i + 1] > 0) => props.fa[i] = arr[i + 1]
                      /\ (i >= Len(arr) \/ arr[i + 1] = 0) => props.fa[i] = fallback

\* {f: 5, f2: 4, fa: [4, 0, 6]} has been applied to a cursor whose fallback
\* was 2: slots 0 and 2 are from fa, slot 1 and the slots past the array
\* are 5, none is the 4 of f2
C25_ArrayBeforeF2 ==
    /\ op.name = "update"
    /\ op.arg.fa = Some(<<4, 0, 6>>)
    /\ op.arg.f2 = Some(4)
    /\ op.arg.f = Some(5)
    /\ prev.f = 2
    /\ props.fa[0] = 4 /\ props.fa[1] = 5 /\ props.fa[2] = 6
    /\ \A i \in 3 .. 11 : props.fa[i] = 5

----------------------------------------------------------------------------
(* Inputs of the document specification *)

\* row elements that are what the format asks for
LegendA == JStr(Str("A"))
\* "B\n\nC"
LegendBC == JStr(<<"B", "", "C">>)
\* ""
LegendEmpty == JStr(String_new)
\* {"x": -0.5, "y": 0.25}
OverlayXY == JObj(<< <<"x", JNum(-2)>>, <<"y", JNum(1)>> >>)
\* {"w": 2, "unknown": "key"}
OverlayW == JObj(<< <<"w", JNum(2 * One)>>, <<"unknown", JStr(Str("key"))>> >>)
\* {"a": 4, "unknown": "key"}
OverlayA4 == JObj(<< <<"a", JNum(4 * One)>>, <<"unknown", JStr(Str("key"))>> >>)

GoodElems == {LegendA, LegendBC, LegendEmpty, OverlayXY, OverlayW}

\* row elements that are not: other JSON types and overlays with a bad field
BadColor == JObj(<< <<"c", JStr(Str("notacolor"))>> >>)
BadFontSize == JObj(<< <<"f", JNum(10 * One)>> >>)
BadAlignment == JObj(<< <<"a", JNum(8 * One)>> >>)
BadType == JObj(<< <<"x", JStr(Str("1"))>> >>)
OddElems ==
    {JNum(5 * One), JBool(TRUE), JNull, JArr(<<>>), JArr(<<LegendA>>),
     BadColor, BadFontSize, BadAlignment, BadType}

\* top-level items: metadata objects and things that are neither
MetaTest == JObj(<< <<"name", JStr(Str("test"))>>, <<"unknown", JStr(Str("key"))>> >>)
MetaNotes == JObj(<< <<"notes", JStr(Str("'tis a test"))>> >>)
MetaBadColor == JObj(<< <<"backcolor", JStr(Str("notacolor"))>> >>)
OddItems == {MetaTest, MetaBadColor, JNull, LegendA}

\* the size of a document: its top-level items plus the elements of its rows
MaxWeight == 5
\* the size of a document before one odd element or item is put into it
MaxOddWeight == 3

\* every sequence of rows of good elements whose size is at most w
RECURSIVE RowSeqs(_)
RowSeqs(w) ==
    {<<>>} \cup
    UNION { UNION { { <<JArr(row)>> \o rest : rest \in RowSeqs(w - 1 - n) } :
                      row \in [1 .. n -> GoodElems] } : n \in 0 .. (w - 1) }

\* the items of a well-formed document: rows, after an optional metadata object
GoodItems(w) ==
    RowSeqs(w) \cup { <<MetaTest>> \o rows : rows \in RowSeqs(w - 1) }

\* seq with v put in before position k
InsertAt(seq, k, v) == SubSeq(seq, 1, k - 1) \o <<v>> \o SubSeq(seq, k, Len(seq))

\* a document with one odd element put into one of its rows, or one odd
\* item put among its top-level items
OddItemSeqs(w) ==
    UNION { { InsertAt(items, k, v) : k \in 1 .. (Len(items) + 1), v \in OddItems }
            \cup
            UNION { { [items EXCEPT ![r] = JArr(InsertAt(items[r][2], k, v)) ] :
                        k \in 1 .. (Len(items[r][2]) + 1), v \in OddElems } :
                    r \in {q \in 1 .. Len(items) : items[q][1] = "arr"} }
          : items \in GoodItems(w) }

\* the documents of the repository's tests and crate documentation
\* lib.rs, test_keyboard_deserialize and test_key_iterator_deserialize
DocKeyboardTest ==
    JArr(<<MetaTest, JArr(<<OverlayA4, LegendA, JStr(Str("B")), JStr(Str("C"))>>),
           JArr(<<JStr(Str("D"))>>)>>)
\* de/mod.rs, test_kle_layout_iterator
DocLayoutTest ==
    JArr(<<JObj(<< <<"meta", JStr(Str("data"))>> >>),
           JArr(<<OverlayA4, LegendA, JStr(Str("B")), OverlayXY, JStr(Str("C"))>>),
           JArr(<<JStr(Str("D"))>>)>>)
\* de/json.rs, test_deserialize_kle_keyboard
DocNotesTest == JArr(<<MetaNotes>>)
\* lib.rs, the example of the crate documentation
DocExample ==
    JArr(<< JObj(<< <<"name", JStr(Str("example"))>> >>),
            JArr(<< JObj(<< <<"f", JNum(4 * One)>> >>),
                    JStr(<<"!", "1", "s", "i">>) >>) >>)
\* [["A"]]
DocA == JArr(<< JArr(<<LegendA>>) >>)

TestDocs == {DocKeyboardTest, DocLayoutTest, DocNotesTest, DocExample, DocA}

\* documents whose top level is not an array
NonArrayDocs == {JNull, MetaTest, LegendA, JNum(One)}

Docs ==
    { JArr(items) : items \in GoodItems(MaxWeight) \cup OddItemSeqs(MaxOddWeight) }
    \cup TestDocs \cup NonArrayDocs

----------------------------------------------------------------------------
(* Spec: a caller hands one document to one of the two entry points, and   *)
(* keeps asking a KeyIterator for keys                                     *)

EntryPoints == {"Keyboard", "KeyIterator"}

\* how many times the caller sees None before it stops asking
MaxEnds == 2

Init ==
    /\ pc = "start"
    /\ doc \in Docs
    /\ entry \in EntryPoints
    /\ result = NoResult
    /\ iter = NoIter
    /\ yielded = <<>>
    /\ props = KleProps_default
    /\ prev = KleProps_default
    /\ op = NoOp
    /\ key = None
    /\ calls = 0
    /\ runs = <<>>

\* serde_json::from_str::<Keyboard>
DeserializeKeyboard ==
    /\ pc = "start"
    /\ entry = "Keyboard"
    /\ LET r == Keyboard_deserialize(doc)
       IN  result' = IF r.ok THEN [kind |-> "Ok", v |-> r.v]
                             ELSE [kind |-> "Err", e |-> r.e]
    /\ pc' = "done"
    /\ UNCHANGED <<props, prev, op, key, calls, doc, entry, iter, yielded, runs>>

\* a deserialize that goes on from the cursor of a KeyIterator that exists
DeserializeKeyIterator_resume ==
    /\ pc = "start"
    /\ entry = "KeyIterator"
    /\ LET r == KeyIterator_deserialize(doc)
       IN  /\ result' = IF r.ok THEN [kind |-> "Ok", v |-> <<>>]
                                ELSE [kind |-> "Err", e |-> r.e]
           /\ iter' = IF ~r.ok THEN NoIter
                      ELSE IF iter = NoIter THEN r.v
                      ELSE [r.v EXCEPT !.state = iter.state]
           /\ pc' = IF r.ok THEN "iterating" ELSE "done"
    /\ UNCHANGED <<props, prev, op, key, calls, doc, entry, yielded, runs>>

\* serde_json::from_str::<KeyIterator>
DeserializeKeyIterator ==
    /\ pc = "start"
    /\ entry = "KeyIterator"
    /\ LET r == KeyIterator_deserialize(doc)
       IN  /\ result' = IF r.ok THEN [kind |-> "Ok", v |-> <<>>]
                                ELSE [kind |-> "Err", e |-> r.e]
           /\ iter' = IF r.ok THEN r.v ELSE NoIter
           /\ pc' = IF r.ok THEN "iterating" ELSE "done"
    /\ UNCHANGED <<props, prev, op, key, calls, doc, entry, yielded, runs>>

Ends == Cardinality({i \in 1 .. Len(yielded) : yielded[i] = None})

\* <KeyIterator as Iterator>::next
KeyIteratorNext ==
    /\ pc = "iterating"
    /\ Ends < MaxEnds
    /\ LET r == KleLayoutIterator_next(iter)
       IN  /\ iter' = r[1]
           /\ yielded' = Append(yielded, r[2])
    /\ UNCHANGED <<pc, props, prev, op, key, calls, doc, entry, result, runs>>

Next == DeserializeKeyboard \/ DeserializeKeyIterator \/ KeyIteratorNext

Spec == Init /\ [][Next]_vars

----------------------------------------------------------------------------
(* Properties of Spec.  What a document says is read off the JSON itself.  *)

DocItems == IF doc[1] = "arr" THEN doc[2] ELSE <<>>
IsRow(item) == item[1] = "arr"
IsString(e) == e[1] = "str"
IsObject(e) == e[1] = "obj"
ParsedOk == result.kind = "Ok"
Parsed == result.kind # "none"

\* the legend strings of the rows, row by row, left to right
RECURSIVE LegendStrings(_)
LegendStrings(items) ==
    IF items = <<>> THEN <<>>
    ELSE (IF IsRow(Head(items)) THEN SelectSeq(Head(items)[2], IsString) ELSE <<>>)
         \o LegendStrings(Tail(items))

\* the texts a key shows, and the texts a legend string asks for
KeyTexts(k) == { k.legends[j][1].text : j \in {i \in Slots : k.legends[i] # None} }
StringTexts(e) ==
    LET lines == Lines(e[2])
    IN  { lines[i] : i \in {j \in 1 .. Min(Len(lines), NUM_LEGENDS) : lines[j] # ""} }

\* the keys a KeyIterator has handed out, and those before its first end
RECURSIVE SomeOf(_)
SomeOf(opts) ==
    IF opts = <<>> THEN <<>>
    ELSE (IF Head(opts) = None THEN <<>> ELSE <<Unwrap(Head(opts))>>)
         \o SomeOf(Tail(opts))
FirstEnd ==
    IF Ends = 0 THEN Len(yielded) + 1
    ELSE CHOOSE i \in 1 .. Len(yielded) :
            yielded[i] = None /\ \A j \in 1 .. (i - 1) : yielded[j] # None
BeforeFirstEnd == SomeOf(SubSeq(yielded, 1, FirstEnd - 1))

\* a document of the documented shape: an array of rows, after an optional
\* metadata object, every row element a string or an object
WellFormed ==
    /\ doc[1] = "arr"
    /\ \A k \in 1 .. Len(DocItems) :
          \/ k = 1 /\ IsObject(DocItems[k])
          \/ /\ IsRow(DocItems[k])
             /\ \A e \in Range(DocItems[k][2]) : IsString(e) \/ IsObject(e)

\* some row of the document holds the element e
HasElem(e) ==
    \E k \in 1 .. Len(DocItems) : IsRow(DocItems[k]) /\ e \in Range(DocItems[k][2])

\* C2: whenever the eager parse of a document of the documented shape
\* succeeds, it returns one key per legend string of the rows, in document
\* order: as many keys as there are legend strings (also with empty rows and
\* rows of overlays only), the k-th key showing the texts of the k-th string.
C2_OneKeyPerLegendString ==
    (entry = "Keyboard" /\ ParsedOk /\ WellFormed) =>
        LET strs == LegendStrings(DocItems)
            keys == result.v.keys
        IN  /\ Len(keys) = Len(strs)
            /\ \A k \in 1 .. Len(keys) : KeyTexts(keys[k]) = StringTexts(strs[k])

\* C3: for a document that parses, the keys a KeyIterator yields up to its
\* first end are a prefix of the keys of the eager parse of that document,
\* and are all of them once the end has been reported.
C3_LazyEqualsEager ==
    (entry = "KeyIterator" /\ ParsedOk) =>
        LET eager == Keyboard_deserialize(doc)
        IN  /\ eager.ok
            /\ Len(BeforeFirstEnd) <= Len(eager.v.keys)
            /\ BeforeFirstEnd = SubSeq(eager.v.keys, 1, Len(BeforeFirstEnd))
            /\ Ends >= 1 => BeforeFirstEnd = eager.v.keys

\* a lazy run that has yielded two keys or more and then reported its end
C3_LazyRunEnded ==
    /\ entry = "KeyIterator"
    /\ Ends = 1
    /\ Len(BeforeFirstEnd) >= 2
    /\ yielded[Len(yielded)] = None

BadOverlays == {BadColor, BadFontSize, BadAlignment, BadType}

\* the document has an element that is invalid: of a shape that is not
\* documented, or an object with a value that is not allowed
HasInvalid ==
    \/ ~WellFormed
    \/ \E e \in BadOverlays : HasElem(e)
    \/ MetaBadColor \in Range(DocItems)

\* C5: a document with an invalid element anywhere fails at both entry
\* points, and no key is handed out.
C5_InvalidElementFails ==
    (Parsed /\ HasInvalid) => (result.kind = "Err" /\ yielded = <<>>)

\* C6: when the eager parse succeeds, the first top-level element has decided
\* the shape: no element gives default metadata and no rows; an object is the
\* metadata and not a row; an array is the first row and the metadata is all
\* defaults; every following element is a row, and the keys are those of the
\* rows in order.
C6_FirstElementDecidesShape ==
    (entry = "Keyboard" /\ ParsedOk) =>
        LET first == DocItems[1]
            rowItems == IF DocItems = <<>> THEN <<>>
                        ELSE IF IsObject(first) THEN Tail(DocItems) ELSE DocItems
            rows == [k \in 1 .. Len(rowItems) |-> de_Row(rowItems[k])]
        IN  /\ doc[1] = "arr"
            /\ DocItems = <<>> => result.v.metadata = Metadata_default
            /\ DocItems # <<>> => (IsObject(first) \/ IsRow(first))
            /\ (DocItems # <<>> /\ IsObject(first)) =>
                  (/\ de_KleMetadata(first).ok
                   /\ result.v.metadata = Metadata_from(de_KleMetadata(first).v))
            /\ (DocItems # <<>> /\ IsRow(first)) =>
                  result.v.metadata = Metadata_default
            /\ \A k \in 1 .. Len(rowItems) : rows[k].ok
            /\ result.v.keys =
                  collect(KleLayoutIterator_new([k \in 1 .. Len(rowItems) |-> rows[k].v]))

\* C7: a document whose top level is not an array fails, and so does a
\* document with a top-level element after the first that is not an array.
C7_NonArrayFails ==
    (/\ Parsed
     /\ \/ doc[1] # "arr"
        \/ \E k \in 2 .. Len(DocItems) : ~IsRow(DocItems[k]))
    => (result.kind = "Err" /\ yielded = <<>> /\ pc = "done")

\* a document with a second metadata object after a first row has been refused
C7_SecondMetadataRefused ==
    /\ result.kind = "Err"
    /\ Len(DocItems) >= 2
    /\ IsRow(DocItems[1])
    /\ DocItems[1][2] # <<>>
    /\ DocItems[2] = MetaTest

\* the keys the caller has been given so far
ExposedKeys ==
    IF entry = "Keyboard"
    THEN (IF ParsedOk THEN result.v.keys ELSE <<>>)
    ELSE SomeOf(yielded)

\* the rows of the document
DocRows == SelectSeq(DocItems, IsRow)

\* C8: parsing [["A"]] gives exactly one key, at (0,0), of size (1,1), with
\* secondary rectangle (0,0,1,1), every flag false, "A" of font size 3 in
\* legend slot 0 and nothing in the other slots; and whenever the first row of
\* a document begins with a legend string, the first key is at (0,0): nothing
\* has moved the cursor before the first row.
C8_FirstKeyFromDefaults ==
    /\ (doc = DocA /\ Parsed) => ParsedOk
    /\ (doc = DocA /\ (entry = "Keyboard" \/ Ends >= 1) /\ Parsed) =>
          /\ Len(ExposedKeys) = 1
          /\ LET k == ExposedKeys[1]
             IN  /\ k.x = 0 /\ k.y = 0
                 /\ k.width = One /\ k.height = One
                 /\ k.x2 = 0 /\ k.y2 = 0
                 /\ k.width2 = One /\ k.height2 = One
                 /\ ~k.ghosted /\ ~k.stepped /\ ~k.homing /\ ~k.decal
                 /\ k.legends[0] # None
                 /\ k.legends[0][1].text = "A"
                 /\ k.legends[0][1].size = 3
                 /\ \A j \in Slots \ {0} : k.legends[j] = None
    /\ (/\ ParsedOk /\ WellFormed
        /\ DocRows # <<>> /\ DocRows[1][2] # <<>> /\ IsString(DocRows[1][2][1])
        /\ ExposedKeys # <<>>) =>
          /\ ExposedKeys[1].x = 0
          /\ ExposedKeys[1].y = 0
          /\ ExposedKeys[1].width = One
          /\ ExposedKeys[1].height = One

\* the lazy parse of [["A"]] has yielded its key and reported the end
C8_SingleKeyYielded ==
    /\ doc = DocA
    /\ entry = "KeyIterator"
    /\ Len(yielded) = 2
    /\ yielded[1] # None
    /\ yielded[2] = None

\* the number an overlay gives to a field, d if it gives none
Field(e, name, d) ==
    LET ms == {i \in 1 .. Len(e[2]) : e[2][i][1] = name}
    IN  IF ms = {} THEN d ELSE e[2][CHOOSE i \in ms : TRUE][2][2]

\* <<the positions of the keys of a row, the y after it>>, from the cursor
\* (x, y) and the width w of the next key: a key is at the cursor and moves
\* it right by its width; an overlay moves the cursor by its x and y
RECURSIVE RowWalk(_, _, _, _)
RowWalk(elems, x, y, w) ==
    IF elems = <<>> THEN << <<>>, y >>
    ELSE IF IsString(Head(elems))
    THEN The({ << << <<x, y>> >> \o r[1], r[2] >>
             : r \in {RowWalk(Tail(elems), x + w, y, One)} })
    ELSE RowWalk(Tail(elems), x + Field(Head(elems), "x", 0),
                 y + Field(Head(elems), "y", 0), Field(Head(elems), "w", One))

\* the positions of the keys of the rows, the first row at y, each
\* following row one unit further down and back at x = 0
RECURSIVE Walk(_, _)
Walk(rows, y) ==
    IF rows = <<>> THEN <<>>
    ELSE The({ r[1] \o Walk(Tail(rows), r[2] + One)
             : r \in {RowWalk(Head(rows)[2], 0, y, One)} })

KeysAtExpectedPositions ==
    (ParsedOk /\ WellFormed) =>
        LET exp == Walk(DocRows, 0)
        IN  /\ Len(ExposedKeys) <= Len(exp)
            /\ \A k \in 1 .. Len(ExposedKeys) :
                  /\ ExposedKeys[k].x = exp[k][1]
                  /\ ExposedKeys[k].y = exp[k][2]

LayoutTestPositions ==
    (doc = DocLayoutTest /\ Len(ExposedKeys) = 4) =>
        /\ [k \in 1 .. 4 |-> ExposedKeys[k].x] = <<0, One, One + 2, 0>>
        /\ [k \in 1 .. 4 |-> ExposedKeys[k].y] = <<0, 0, 1, One + 1>>

YieldedKeysKept ==
    \A k \in 1 .. Len(yielded) : Len(yielded') >= k /\ yielded'[k] = yielded[k]

\* C9: an overlay affects only the keys after it.  A key is at the running
\* cursor (the previous key's x plus its width) moved by the x and y of the
\* overlays since the previous key; for the rows ["A","B",{x:-0.5,y:0.25},"C"]
\* and ["D"] the x values are 0, 1, 1.5, 0; and a key that has been yielded
\* is never changed by what follows it.
C9_OverlayAffectsLaterKeys ==
    /\ [](KeysAtExpectedPositions /\ LayoutTestPositions)
    /\ [][YieldedKeysKept]_vars

\* the lazy parse of the layout test document has yielded its four keys
C9_LayoutTestYielded ==
    /\ doc = DocLayoutTest
    /\ entry = "KeyIterator"
    /\ Len(SomeOf(yielded)) = 4

\* the cursor of the KeyIterator, once there is one
HasCursor == pc = "iterating"

\* the cursor has 12 font sizes and 12 legend colours, an alignment of at
\* most 7 and font sizes of at most 9
CursorInBounds(c) ==
    /\ DOMAIN c.fa = Slots
    /\ DOMAIN c.ta = Slots
    /\ c.a \in 0 .. MAX_ALIGNMENT
    /\ c.f \in 0 .. FONT_MAX
    /\ \A i \in Slots : c.fa[i] \in 0 .. FONT_MAX

\* the key has 12 legend slots and every legend a size of at most 9
KeyInBounds(k) ==
    /\ DOMAIN k.legends = Slots
    /\ \A j \in Slots : k.legends[j] # None => k.legends[j][1].size \in 0 .. FONT_MAX

\* C16: the cursor of the driver always has exactly 12 font sizes and 12
\* legend colours, an alignment in [0,7], and a fallback font size and font
\* sizes in [0,9]; every key handed out has exactly 12 legend slots, and
\* every legend in it has a size in [0,9].
C16_BoundsInvariant ==
    /\ HasCursor => CursorInBounds(iter.state)
    /\ \A k \in 1 .. Len(ExposedKeys) : KeyInBounds(ExposedKeys[k])

\* the example of the crate documentation has yielded its key of font size 4
C16_ExampleKeyYielded ==
    /\ entry = "KeyIterator"
    /\ doc = DocExample
    /\ Len(SomeOf(yielded)) = 1
    /\ iter.state.f = 4
    /\ \E j \in Slots : /\ yielded[1][1].legends[j] # None
                        /\ yielded[1][1].legends[j][1].size = 4

\* some row of the document has an element that is neither a string nor an
\* object
HasOddElem ==
    \E k \in 1 .. Len(DocItems) :
        /\ IsRow(DocItems[k])
        /\ \E e \in Range(DocItems[k][2]) : ~IsString(e) /\ ~IsObject(e)

\* C30: a document with a row element that is neither a string nor an
\* object (a number, a boolean, null, a nested array), in the first row or
\* in a later one, fails at both entry points; and a first top-level array
\* is never taken for the metadata: when the eager parse succeeds on a
\* document that begins with an array, the metadata is all defaults.
C30_RowElementsStringOrObject ==
    /\ (Parsed /\ HasOddElem) => result.kind = "Err"
    /\ (entry = "Keyboard" /\ ParsedOk /\ DocItems # <<>> /\ IsRow(DocItems[1])) =>
          result.v.metadata = Metadata_default

\* the last value the KeyIterator has returned
LastYielded == yielded[Len(yielded)]

\* the document has a row without any element
HasEmptyRow == \E k \in 1 .. Len(DocItems) : DocItems[k] = JArr(<<>>)

\* the slots of a key that hold a legend
FilledSlots(k) == {j \in Slots : k.legends[j] # None}

\* C28: no key has a legend with empty text: a key has one legend per
\* non-blank line of its legend string and a blank line gives none.  The
\* empty legend string gives a key as any other string does, with all 12
\* slots empty: the eager parse of a document whose rows all have an element
\* returns one key per legend string, empty ones included; and right after
\* a key without legends the cursor is one key width to its right.
C28_BlankLinesGiveNoLegend ==
    /\ \A k \in 1 .. Len(ExposedKeys) :
          \A j \in FilledSlots(ExposedKeys[k]) : ExposedKeys[k].legends[j][1].text # ""
    /\ (ParsedOk /\ WellFormed) =>
          /\ Len(ExposedKeys) <= Len(LegendStrings(DocItems))
          /\ \A k \in 1 .. Len(ExposedKeys) :
                /\ Cardinality(FilledSlots(ExposedKeys[k]))
                      = Cardinality(StringTexts(LegendStrings(DocItems)[k]))
                /\ LegendStrings(DocItems)[k] = JStr(<<"">>)
                      => FilledSlots(ExposedKeys[k]) = {}
    /\ (entry = "Keyboard" /\ ParsedOk /\ WellFormed /\ ~HasEmptyRow) =>
          Len(result.v.keys) = Len(LegendStrings(DocItems))
    /\ (HasCursor /\ yielded # <<>> /\ LastYielded # None
            /\ FilledSlots(LastYielded[1]) = {}) =>
          /\ iter.state.x = LastYielded[1].x + LastYielded[1].width
          /\ iter.state.y = LastYielded[1].y

\* ["", "A"] has yielded a key without legends at x = 0 and then "A" at x = 1
C28_EmptyStringKeyYielded ==
    /\ entry = "KeyIterator"
    /\ doc = JArr(<< JArr(<<LegendEmpty, LegendA>>) >>)
    /\ Len(SomeOf(yielded)) = 2
    /\ FilledSlots(yielded[1][1]) = {}
    /\ yielded[1][1].x = 0
    /\ yielded[2][1].x = One
    /\ FilledSlots(yielded[2][1]) = {0}

\* C31: once a KeyIterator has returned None, every later next() on it
\* returns None too: no key is yielded after an end, for any document,
\* documents with empty rows included.
C31_EndIsFinal ==
    \A i \in 1 .. Len(yielded) :
        yielded[i] = None => \A j \in i .. Len(yielded) : yielded[j] = None

----------------------------------------------------------------------------
(* SpecLayout: the two entry points on layouts whose overlays set the      *)
(* rotation anchor, the rotation, the size and the flags of a key          *)

\* {"rx": 1, "x": 1}
OverlayRx == JObj(<< <<"rx", JNum(One)>>, <<"x", JNum(One)>> >>)
\* {"ry": 2}
OverlayRy == JObj(<< <<"ry", JNum(2 * One)>> >>)
\* {"r": 15}
OverlayR == JObj(<< <<"r", JNum(15 * One)>> >>)
\* {"w": 1.5, "h": 2, "x2": 0.25, "w2": 2.5, "l": true, "n": true, "d": true}
OverlayStepped ==
    JObj(<< <<"w", JNum(6)>>, <<"h", JNum(2 * One)>>, <<"x2", JNum(1)>>,
            <<"w2", JNum(10)>>, <<"l", JBool(TRUE)>>, <<"n", JBool(TRUE)>>,
            <<"d", JBool(TRUE)>> >>)

LayoutElems == {LegendA, OverlayXY, OverlayRx, OverlayRy, OverlayR, OverlayStepped}

\* the size of a layout: its rows plus their elements
MaxLayoutWeight == 5

\* every sequence of rows of layout elements whose size is at most w
RECURSIVE LayoutRows(_)
LayoutRows(w) ==
    {<<>>} \cup
    UNION { UNION { { <<JArr(row)>> \o rest : rest \in LayoutRows(w - 1 - n) } :
                      row \in [1 .. n -> LayoutElems] } : n \in 0 .. (w - 1) }

LayoutDocs == { JArr(rows) : rows \in LayoutRows(MaxLayoutWeight) }

InitLayout ==
    /\ pc = "start"
    /\ doc \in LayoutDocs
    /\ entry \in EntryPoints
    /\ result = NoResult
    /\ iter = NoIter
    /\ yielded = <<>>
    /\ props = KleProps_default
    /\ prev = KleProps_default
    /\ op = NoOp
    /\ key = None
    /\ calls = 0
    /\ runs = <<>>

SpecLayout == InitLayout /\ [][Next]_vars

----------------------------------------------------------------------------
(* Properties of SpecLayout.  The keys a layout asks for are worked out    *)
(* from the JSON alone, with a cursor of position, size, flags and anchor. *)

HasField(e, name) == \E i \in 1 .. Len(e[2]) : e[2][i][1] = name

ExpStart ==
    [x |-> 0, y |-> 0, w |-> One, h |-> One, x2 |-> 0, y2 |-> 0,
     w2 |-> One, h2 |-> One, l |-> FALSE, n |-> FALSE, d |-> FALSE,
     r |-> 0, rx |-> 0, ry |-> 0]

\* the cursor after an overlay: an overlay with rx or ry moves the cursor to
\* the anchor; x and y are added; size and flags are the overlay's or default
ExpOverlay(c, e) ==
    LET anchored == HasField(e, "rx") \/ HasField(e, "ry")
        rx == Field(e, "rx", c.rx)
        ry == Field(e, "ry", c.ry)
    IN  [x |-> (IF anchored THEN rx ELSE c.x) + Field(e, "x", 0),
         y |-> (IF anchored THEN ry ELSE c.y) + Field(e, "y", 0),
         w |-> Field(e, "w", One), h |-> Field(e, "h", One),
         x2 |-> Field(e, "x2", 0), y2 |-> Field(e, "y2", 0),
         w2 |-> Field(e, "w2", Field(e, "w", One)),
         h2 |-> Field(e, "h2", Field(e, "h", One)),
         l |-> Field(e, "l", FALSE), n |-> Field(e, "n", FALSE),
         d |-> Field(e, "d", FALSE),
         r |-> Field(e, "r", c.r), rx |-> rx, ry |-> ry]

\* the cursor after a key: right by the key's width, size and flags default
ExpAfterKey(c) ==
    [c EXCEPT !.x = c.x + c.w, !.w = One, !.h = One, !.x2 = 0, !.y2 = 0,
              !.w2 = One, !.h2 = One, !.l = FALSE, !.n = FALSE, !.d = FALSE]

\* the cursor at the start of a following row: x at the anchor's x, y one
\* further down, size and flags default
ExpNewRow(c) ==
    [c EXCEPT !.x = c.rx, !.y = c.y + One, !.w = One, !.h = One,
              !.x2 = 0, !.y2 = 0, !.w2 = One, !.h2 = One,
              !.l = FALSE, !.n = FALSE, !.d = FALSE]

\* <<the cursors the keys of a row are built from, the cursor after the row>>
RECURSIVE ExpRow(_, _)
ExpRow(elems, c) ==
    IF elems = <<>> THEN << <<>>, c >>
    ELSE IF IsString(Head(elems))
    THEN The({ << <<c>> \o r[1], r[2] >>
             : r \in {ExpRow(Tail(elems), ExpAfterKey(c))} })
    ELSE ExpRow(Tail(elems), ExpOverlay(c, Head(elems)))

\* the cursors the keys of the rows are built from, the first row from c
RECURSIVE ExpRows(_, _)
ExpRows(rows, c) ==
    IF rows = <<>> THEN <<>>
    ELSE The({ r[1] \o ExpRows(Tail(rows), ExpNewRow(r[2]))
             : r \in {ExpRow(Head(rows)[2], c)} })

ExpKeys == ExpRows(DocRows, ExpStart)

\* C11: next_line on any cursor the driver reaches puts x at the anchor's x
\* (rx), adds exactly 1 to y, leaves size and flags at their defaults and the
\* anchor as it is; and the driver applies it exactly once at each change to
\* a following row: every key is at the x and y worked out from the JSON
\* with one row advance per row.
C11_NextLine ==
    /\ HasCursor =>
          LET c == iter.state
              n == next_line(c)
          IN  /\ n.x = c.rx
              /\ n.y = c.y + One
              /\ n.w = One /\ n.h = One /\ n.w2 = One /\ n.h2 = One
              /\ n.x2 = 0 /\ n.y2 = 0
              /\ ~n.l /\ ~n.n /\ ~n.d
              /\ n.rx = c.rx /\ n.ry = c.ry /\ n.r = c.r
    /\ ParsedOk =>
          /\ Len(ExposedKeys) <= Len(ExpKeys)
          /\ \A k \in 1 .. Len(ExposedKeys) :
                /\ ExposedKeys[k].x = ExpKeys[k].x
                /\ ExposedKeys[k].y = ExpKeys[k].y

\* a key of the second row has been yielded at x = rx = 1 and y = 3, after
\* a first row that set the anchor to (1, 2)
C11_SecondRowAtAnchor ==
    /\ entry = "KeyIterator"
    /\ doc = JArr(<< JArr(<<OverlayRx, OverlayRy>>), JArr(<<LegendA>>) >>)
    /\ Len(yielded) = 1
    /\ yielded[1] # None
    /\ yielded[1][1].x = One
    /\ yielded[1][1].y = 3 * One

\* every key has the position, the size, the secondary rectangle and the
\* flags of the cursor as the overlays before it have left it
KeysFromCursorBeforeAdvance ==
    ParsedOk =>
        /\ Len(ExposedKeys) <= Len(ExpKeys)
        /\ \A k \in 1 .. Len(ExposedKeys) :
              LET got == ExposedKeys[k]
                  exp == ExpKeys[k]
              IN  /\ got.x = exp.x /\ got.y = exp.y
                  /\ got.width = exp.w /\ got.height = exp.h
                  /\ got.x2 = exp.x2 /\ got.y2 = exp.y2
                  /\ got.width2 = exp.w2 /\ got.height2 = exp.h2
                  /\ got.stepped = exp.l /\ got.homing = exp.n
                  /\ got.decal = exp.d

\* a request that returns a key leaves the cursor advanced once from the
\* cursor the key was built from
AdvancedOnceAfterKey ==
    (Len(yielded') = Len(yielded) + 1 /\ yielded'[Len(yielded')] # None) =>
        LET k == yielded'[Len(yielded')][1]
            c == iter'.state
        IN  /\ c.x = k.x + k.width
            /\ c.y = k.y
            /\ c.w = One /\ c.h = One /\ c.w2 = One /\ c.h2 = One
            /\ c.x2 = 0 /\ c.y2 = 0
            /\ ~c.l /\ ~c.n /\ ~c.d
            /\ c.rx = k.rx /\ c.ry = k.ry /\ c.r = k.rotation

\* C13: a key is built from the cursor as it is after the overlays before it
\* and before the advance: its position, size and flags are those worked out
\* from the JSON, and right after a key has been returned the cursor is that
\* of the key advanced exactly once.
C13_BuildBeforeAdvance ==
    /\ []KeysFromCursorBeforeAdvance
    /\ [][AdvancedOnceAfterKey]_vars

\* a stepped key of width 1.5 has been yielded and the cursor stands behind it
C13_SteppedKeyYielded ==
    /\ entry = "KeyIterator"
    /\ yielded # <<>>
    /\ LastYielded # None
    /\ LastYielded[1].width = 6
    /\ LastYielded[1].stepped
    /\ iter.state.w = One
    /\ iter.state.x = LastYielded[1].x + 6

----------------------------------------------------------------------------
(* SpecTwice: the caller parses the same document again, with the same     *)
(* entry point, while it may still hold what the earlier parse gave it     *)

\* how many times the document is parsed
MaxRuns == 2
\* the size of the documents that are parsed more than once
MaxTwiceWeight == 4

TwiceDocs ==
    { JArr(items) : items \in GoodItems(MaxTwiceWeight)
                              \cup OddItemSeqs(MaxTwiceWeight - 2) }
    \cup TestDocs \cup NonArrayDocs

InitTwice ==
    /\ pc = "start"
    /\ doc \in TwiceDocs
    /\ entry \in EntryPoints
    /\ result = NoResult
    /\ iter = NoIter
    /\ yielded = <<>>
    /\ props = KleProps_default
    /\ prev = KleProps_default
    /\ op = NoOp
    /\ key = None
    /\ calls = 0
    /\ runs = <<>>

\* the caller turns to the document again: what the parse before gave is
\* noted, and the next deserialize call starts from the document alone
ParseAgain ==
    /\ pc \in {"done", "iterating"}
    /\ Len(runs) < MaxRuns - 1
    /\ runs' = Append(runs, [result |-> result, yielded |-> yielded])
    /\ pc' = "start"
    /\ result' = NoResult
    /\ yielded' = <<>>
    /\ UNCHANGED <<props, prev, op, key, calls, doc, entry, iter>>

NextTwice ==
    DeserializeKeyboard \/ DeserializeKeyIterator \/ KeyIteratorNext \/ ParseAgain

SpecTwice == InitTwice /\ [][NextTwice]_vars

----------------------------------------------------------------------------
(* SpecBounded: a FontSize or an Alignment is made from one value, by new, *)
(* by deserialize or by default                                            *)

\* the largest value a bounded integer is made from
MaxValue == 20

BoundedTypes == {"FontSize", "Alignment"}
MaxOf(type) == IF type = "FontSize" THEN FONT_MAX ELSE MAX_ALIGNMENT
DefOf(type) == IF type = "FontSize" THEN FONT_DEF ELSE ALIGN_DEF

\* the values handed to deserialize: whole numbers, 0.5, -1, a string, null
BoundedInputs ==
    { JNum(n * One) : n \in 0 .. MaxValue } \cup {JNum(2), JNum(-One), LegendA, JNull}

InitBounded ==
    /\ pc = "bounded"
    /\ entry \in BoundedTypes
    /\ doc \in BoundedInputs
    /\ result = NoResult
    /\ op = NoOp
    /\ iter = NoIter
    /\ yielded = <<>>
    /\ props = KleProps_default
    /\ prev = KleProps_default
    /\ key = None
    /\ calls = 0
    /\ runs = <<>>

AsResult(r) == IF r.ok THEN [kind |-> "Ok", v |-> r.v] ELSE [kind |-> "Err", e |-> r.e]

\* BoundedUsize::new(value), for a value that is a usize
CallNew ==
    /\ pc = "bounded"
    /\ de_usize(doc).ok
    /\ op' = [name |-> "new", arg |-> de_usize(doc).v]
    /\ result' = AsResult(BoundedUsize_new(MaxOf(entry), de_usize(doc).v))
    /\ pc' = "made"
    /\ UNCHANGED <<props, prev, key, calls, doc, entry, iter, yielded, runs>>

\* BoundedUsize::deserialize
CallDeserialize ==
    /\ pc = "bounded"
    /\ op' = [name |-> "deserialize", arg |-> doc]
    /\ result' = AsResult(BoundedUsize_deserialize(MaxOf(entry), doc))
    /\ pc' = "made"
    /\ UNCHANGED <<props, prev, key, calls, doc, entry, iter, yielded, runs>>

\* BoundedUsize::default()
CallDefault ==
    /\ pc = "bounded"
    /\ op' = [name |-> "default", arg |-> <<>>]
    /\ result' = [kind |-> "Ok", v |-> BoundedUsize_default(DefOf(entry))]
    /\ pc' = "made"
    /\ UNCHANGED <<props, prev, key, calls, doc, entry, iter, yielded, runs>>

\* usize::from on the value that was made
CallInto ==
    /\ pc = "made"
    /\ result.kind = "Ok"
    /\ key' = Some(usize_from(result.v))
    /\ pc' = "converted"
    /\ UNCHANGED <<props, prev, op, calls, doc, entry, result, iter, yielded, runs>>

NextBounded == CallNew \/ CallDeserialize \/ CallDefault \/ CallInto

SpecBounded == InitBounded /\ [][NextBounded]_vars

\* the value a bounded integer was made from, and the text of its range
MadeFrom == IF op.name = "new" THEN op.arg ELSE op.arg[2] \div One
RangeOf(type) == IF type = "FontSize" THEN "0 <= x <= 9" ELSE "0 <= x <= 7"
MadeFromUsize ==
    \/ op.name = "new"
    \/ op.name = "deserialize" /\ op.arg[1] = "num" /\ op.arg[2] >= 0
                               /\ op.arg[2] % One = 0

\* making succeeds exactly when the value is at most the maximum, converting
\* back gives the value, and the defaults are 3 and 4
MadeExactlyInRange ==
    /\ (pc # "bounded" /\ MadeFromUsize) =>
          (result.kind = "Ok" <=> MadeFrom <= (IF entry = "FontSize" THEN 9 ELSE 7))
    /\ (pc # "bounded" /\ MadeFromUsize /\ result.kind = "Ok") => result.v = MadeFrom
    /\ (pc = "converted" /\ MadeFromUsize) => key = Some(MadeFrom)
    /\ (pc # "bounded" /\ op.name = "default") =>
          (result.kind = "Ok" /\ result.v = (IF entry = "FontSize" THEN 3 ELSE 4))

\* C17 as stated: a bounded integer is made exactly from the values up to the
\* maximum and converts back to the value, the defaults are 3 and 4, and a
\* value beyond the maximum is refused with an error that names the value
\* and the range.
C17_RefusalNamesValueAndRange ==
    /\ MadeExactlyInRange
    /\ (pc # "bounded" /\ MadeFromUsize /\ result.kind = "Err") =>
          /\ result.e.kind = "invalid_value"
          /\ result.e.unexpected = MadeFrom
          /\ result.e.expected = RangeOf(entry)

\* C17: a bounded integer is made exactly from the values up to the maximum
\* (9 for a font size, 7 for an alignment) and converts back to the value; the
\* defaults are 3 and 4; a value beyond the maximum is refused, by
\* deserialize with an invalid-value error that names the value and the
\* range, by new with a BoundsError that names neither.
C17_BoundedConstruction ==
    /\ MadeExactlyInRange
    /\ (pc # "bounded" /\ op.name = "deserialize" /\ MadeFromUsize
        /\ result.kind = "Err") =>
          /\ result.e.kind = "invalid_value"
          /\ result.e.unexpected = MadeFrom
          /\ result.e.expected = RangeOf(entry)
    /\ (pc # "bounded" /\ op.name = "new" /\ result.kind = "Err") =>
          /\ result.e = BoundsError
          /\ DOMAIN result.e = {"kind"}

\* new has refused the value 8 for an alignment
C17_NewRefusedEight ==
    /\ pc = "made"
    /\ entry = "Alignment"
    /\ op.name = "new"
    /\ op.arg = 8
    /\ result.kind = "Err"

----------------------------------------------------------------------------
(* SpecMeta: the two entry points on documents whose metadata object has   *)
(* some of its fields                                                      *)

\* the members a metadata object is made of
MetaMembers ==
    << <<"author", JStr(Str("author"))>>,
       <<"backcolor", JStr(Str("#f00"))>>,
       <<"background", JObj(<< <<"name", JStr(Str("bg"))>> >>)>>,
       <<"name", JStr(Str("name"))>>,
       <<"notes", JNull>>,
       <<"radii", JStr(Str("radii"))>>,
       <<"switchMount", JStr(Str("mount"))>>,
       <<"switchBrand", JStr(Str("brand"))>>,
       <<"switchType", JStr(Str("type"))>>,
       <<"css", JStr(Str("css"))>>,
       <<"pcb", JBool(TRUE)>>,
       <<"plate", JBool(TRUE)>> >>

\* how many members a metadata object has
MaxMetaFields == 3

\* the members with an index in S, in the order of MetaMembers, from index i
RECURSIVE PickMembers(_, _)
PickMembers(S, i) ==
    IF i > Len(MetaMembers) THEN <<>>
    ELSE (IF i \in S THEN <<MetaMembers[i]>> ELSE <<>>) \o PickMembers(S, i + 1)

MetaObjects ==
    { JObj(PickMembers(S, 1)) :
        S \in {T \in SUBSET (1 .. Len(MetaMembers)) : Cardinality(T) <= MaxMetaFields} }

\* a metadata object alone, before a row, and before a second metadata
\* object; and documents without one
MetaDocs ==
    { JArr(<<meta>>) : meta \in MetaObjects }
    \cup { JArr(<<meta, JArr(<<LegendA>>)>>) : meta \in MetaObjects }
    \cup { JArr(<<meta, MetaTest>>) : meta \in MetaObjects }
    \cup { JArr(<<>>), DocA }

InitMeta ==
    /\ pc = "start"
    /\ doc \in MetaDocs
    /\ entry \in EntryPoints
    /\ result = NoResult
    /\ iter = NoIter
    /\ yielded = <<>>
    /\ props = KleProps_default
    /\ prev = KleProps_default
    /\ op = NoOp
    /\ key = None
    /\ calls = 0
    /\ runs = <<>>

SpecMeta == InitMeta /\ [][Next]_vars

\* the metadata object of the document, an empty object if there is none
DocMeta ==
    IF DocItems # <<>> /\ IsObject(DocItems[1]) THEN DocItems[1] ELSE JObj(<<>>)

\* what a metadata object gives for a field: its value, d if the field is
\* absent or null
MetaValue(e, name, d) ==
    LET ms == {i \in 1 .. Len(e[2]) : e[2][i][1] = name}
        v == e[2][CHOOSE i \in ms : TRUE][2]
    IN  IF ms = {} \/ v = JNull THEN d ELSE v[2]

\* C18: the metadata of a parsed document comes from its one metadata
\* object, field by field: the value the object gives, or else the default
\* (background colour #EEEEEE, empty strings, false for plate and PCB
\* mount); a second metadata object makes the parse fail.
C18_MetadataFieldByField ==
    /\ (entry = "Keyboard" /\ ParsedOk) =>
          LET md == result.v.metadata
              bg == MetaValue(DocMeta, "background", <<>>)
          IN  /\ md.author = MetaValue(DocMeta, "author", <<"">>)
              /\ md.name = MetaValue(DocMeta, "name", <<"">>)
              /\ md.notes = MetaValue(DocMeta, "notes", <<"">>)
              /\ md.radii = MetaValue(DocMeta, "radii", <<"">>)
              /\ md.switch.mount = MetaValue(DocMeta, "switchMount", <<"">>)
              /\ md.switch.brand = MetaValue(DocMeta, "switchBrand", <<"">>)
              /\ md.switch.typ = MetaValue(DocMeta, "switchType", <<"">>)
              /\ md.plate_mount = MetaValue(DocMeta, "plate", FALSE)
              /\ md.pcb_mount = MetaValue(DocMeta, "pcb", FALSE)
              /\ md.background_color =
                    (IF MetaValue(DocMeta, "backcolor", <<>>) = <<"#f00">>
                     THEN <<255, 0, 0, 255>> ELSE <<238, 238, 238, 255>>)
              /\ md.background.name = MetaValue(JObj(bg), "name", <<"">>)
              /\ md.background.style = MetaValue(JObj(bg), "style", <<"">>)
    /\ (Parsed /\ Len(DocItems) >= 2 /\ IsObject(DocItems[2])) => result.kind = "Err"
    /\ (Parsed /\ Len(DocItems) <= 1) => ParsedOk

\* a document whose metadata object has a name, a null for notes and a PCB
\* mount, and no other field, has been parsed
C18_PartialMetadataParsed ==
    /\ entry = "Keyboard"
    /\ ParsedOk
    /\ doc = JArr(<< JObj(<<MetaMembers[4], MetaMembers[5], MetaMembers[11]>>),
                     JArr(<<LegendA>>) >>)
    /\ result.v.metadata.name = <<"name">>
    /\ result.v.metadata.author = <<"">>
    /\ result.v.metadata.pcb_mount
    /\ ~result.v.metadata.plate_mount

----------------------------------------------------------------------------
(* SpecColors: the two entry points on layouts whose second overlay has a  *)
(* legend colour list                                                      *)

\* the lines of a colour list: two colours, a blank line, and the line of
\* test_de_nl_delimited_colors that is no colour
ColorLines == {"#f00", "#ba9", "", "#abc\\n#bad"}

\* how many "\n"-separated segments a colour list has
MaxColorLines == 3

\* the "t" fields: null, and every string of up to MaxColorLines segments
ColorFields ==
    {JNull} \cup
    UNION { { JStr(segs) : segs \in [1 .. n -> ColorLines] } : n \in 1 .. MaxColorLines }

\* [[{"t": "#00f"}, "A", {"t": v}, "B"]]
ColorDocs ==
    { JArr(<< JArr(<< JObj(<< <<"t", JStr(Str("#00f"))>> >>), LegendA,
                      JObj(<< <<"t", v>> >>), JStr(Str("B")) >>) >>)
    : v \in ColorFields }

InitColors ==
    /\ pc = "start"
    /\ doc \in ColorDocs
    /\ entry \in EntryPoints
    /\ result = NoResult
    /\ iter = NoIter
    /\ yielded = <<>>
    /\ props = KleProps_default
    /\ prev = KleProps_default
    /\ op = NoOp
    /\ key = None
    /\ calls = 0
    /\ runs = <<>>

SpecColors == InitColors /\ [][Next]_vars

\* the "t" field of the second overlay of the document
ColorField == DocItems[1][2][3][2][1][2]

\* the lines of a colour list given by its segments: a final empty segment
\* is no line
ColorListLines(segs) ==
    IF segs[Len(segs)] = "" THEN [i \in 1 .. (Len(segs) - 1) |-> segs[i]] ELSE segs

\* the colour a line stands for, if it is one
LineIsColor(line) == line \in {"#f00", "#ba9"}
LineColor(line) == IF line = "#f00" THEN <<255, 0, 0, 255>> ELSE <<187, 170, 153, 255>>

\* what the colour list says about slot i: <<c>> for a colour, <<>> for a
\* blank line or no line
SlotColor(lines, i) ==
    IF i + 1 <= Len(lines) /\ lines[i + 1] # "" THEN <<LineColor(lines[i + 1])>> ELSE <<>>

\* the colour of slot i after the colour field v on a cursor whose legend
\* colours are all blue
ColorAfter(v, i) ==
    IF v = JNull THEN <<0, 0, 255, 255>>
    ELSE LET lines == ColorListLines(v[2])
             t == IF SlotColor(lines, 0) # <<>> THEN SlotColor(lines, 0)[1]
                  ELSE <<0, 0, 255, 255>>
         IN  IF SlotColor(lines, i) # <<>> THEN SlotColor(lines, i)[1] ELSE t

\* the colour field has a line that is neither blank nor a colour
HasBadLine(v) ==
    /\ v # JNull
    /\ \E i \in 1 .. Len(ColorListLines(v[2])) :
          /\ ColorListLines(v[2])[i] # ""
          /\ ~LineIsColor(ColorListLines(v[2])[i])

\* C19: a colour list is resolved line by line: a parse fails exactly when
\* some line is neither blank nor a colour; otherwise the decoded field has
\* one entry per line, no colour for a blank line and the line's colour in
\* the same position for any other, and null gives no list: the cursor keeps
\* the legend colours it had.
C19_ColorListLineByLine ==
    /\ Parsed => (result.kind = "Err" <=> HasBadLine(ColorField))
    /\ LET r == de_nl_delimited_colors(ColorField)
       IN  /\ r.ok <=> ~HasBadLine(ColorField)
           /\ (r.ok /\ ColorField = JNull) => r.v = None
           /\ (r.ok /\ ColorField # JNull) =>
                 /\ IsSome(r.v)
                 /\ Len(Unwrap(r.v)) = Len(ColorListLines(ColorField[2]))
                 /\ \A i \in 0 .. (Len(Unwrap(r.v)) - 1) :
                       Unwrap(r.v)[i + 1] = SlotColor(ColorListLines(ColorField[2]), i)
    /\ (HasCursor /\ Len(SomeOf(yielded)) = 2) =>
          /\ \A i \in Slots : iter.state.ta[i] = ColorAfter(ColorField, i)
          /\ yielded[2][1].legends[0][1].color = ColorAfter(ColorField, 0)

\* the list "#f00\n\n#ba9" of test_de_nl_delimited_colors has been applied:
\* red in slot 0, the fallback red in slot 1, #ba9 in slot 2
C19_TestListApplied ==
    /\ entry = "KeyIterator"
    /\ ColorField = JStr(<<"#f00", "", "#ba9">>)
    /\ Len(SomeOf(yielded)) = 2
    /\ iter.state.ta[0] = <<255, 0, 0, 255>>
    /\ iter.state.ta[1] = <<255, 0, 0, 255>>
    /\ iter.state.ta[2] = <<187, 170, 153, 255>>
    /\ iter.state.ta[3] = <<255, 0, 0, 255>>

----------------------------------------------------------------------------
(* SpecStyle: the two entry points on layouts whose overlays set the       *)
(* persistent fields and the per-key flags                                 *)

\* "A\nB\nC\nD\nE\nF\nG\nH\nI\nJ\nK\nL"
LegendFull == JStr(SubSeq(Letters, 1, NUM_LEGENDS))
\* {"r": 15, "g": true, "sm": "cherry", "c": "#f00", "p": "DCS", "a": 5}
OverlayStyle1 ==
    JObj(<< <<"r", JNum(15 * One)>>, <<"g", JBool(TRUE)>>,
            <<"sm", JStr(Str("cherry"))>>, <<"c", JStr(Str("#f00"))>>,
            <<"p", JStr(Str("DCS"))>>, <<"a", JNum(5 * One)>> >>)
\* {"g": false, "sb": "gateron", "st": "red", "c": "#00f", "a": 7}
OverlayStyle2 ==
    JObj(<< <<"g", JBool(FALSE)>>, <<"sb", JStr(Str("gateron"))>>,
            <<"st", JStr(Str("red"))>>, <<"c", JStr(Str("#00f"))>>,
            <<"a", JNum(7 * One)>> >>)
\* {"l": true}
OverlayL == JObj(<< <<"l", JBool(TRUE)>> >>)
\* {"n": true, "d": true, "l": false}
OverlayND ==
    JObj(<< <<"n", JBool(TRUE)>>, <<"d", JBool(TRUE)>>, <<"l", JBool(FALSE)>> >>)

StyleElems == {LegendFull, OverlayStyle1, OverlayStyle2, OverlayL, OverlayND}

\* the size of a styled layout: its rows plus their elements
MaxStyleWeight == 5

\* every sequence of rows of style elements whose size is at most w
RECURSIVE StyleRows(_)
StyleRows(w) ==
    {<<>>} \cup
    UNION { UNION { { <<JArr(row)>> \o rest : rest \in StyleRows(w - 1 - n) } :
                      row \in [1 .. n -> StyleElems] } : n \in 0 .. (w - 1) }

StyleDocs == { JArr(rows) : rows \in StyleRows(MaxStyleWeight) }

InitStyle ==
    /\ pc = "start"
    /\ doc \in StyleDocs
    /\ entry \in EntryPoints
    /\ result = NoResult
    /\ iter = NoIter
    /\ yielded = <<>>
    /\ props = KleProps_default
    /\ prev = KleProps_default
    /\ op = NoOp
    /\ key = None
    /\ calls = 0
    /\ runs = <<>>

SpecStyle == InitStyle /\ [][Next]_vars

----------------------------------------------------------------------------
(* Properties of SpecStyle, read off the JSON: the elements of all rows in *)
(* document order, and for each key the overlays before its legend string  *)

RECURSIVE FlatElems(_)
FlatElems(rows) ==
    IF rows = <<>> THEN <<>> ELSE Head(rows)[2] \o FlatElems(Tail(rows))

DocElems == FlatElems(DocRows)

\* the place in DocElems of the k-th legend string
StringPlace(k) ==
    CHOOSE q \in 1 .. Len(DocElems) :
        /\ IsString(DocElems[q])
        /\ Cardinality({i \in 1 .. q : IsString(DocElems[i])}) = k

\* what the last overlay before place q that has the field gives it, d if
\* no overlay before q has it
LastSetting(q, name, d) ==
    LET qs == {i \in 1 .. (q - 1) : IsObject(DocElems[i]) /\ HasField(DocElems[i], name)}
    IN  IF qs = {} THEN d
        ELSE Field(DocElems[CHOOSE i \in qs : \A j \in qs : j <= i], name, d)

\* the colour of the literals the style overlays use
StyleColor(segs) ==
    IF segs = <<"#f00">> THEN <<255, 0, 0, 255>>
    ELSE IF segs = <<"#00f">> THEN <<0, 0, 255, 255>>
    ELSE <<204, 204, 204, 255>>

\* the k-th key has the persistent values of the overlays before place q
KeyInherits(k, q) ==
    LET got == ExposedKeys[k]
        a == LastSetting(q, "a", 4 * One) \div One
    IN  /\ got.rotation = LastSetting(q, "r", 0)
        /\ got.ghosted = LastSetting(q, "g", FALSE)
        /\ got.switch.mount = LastSetting(q, "sm", <<"">>)
        /\ got.switch.brand = LastSetting(q, "sb", <<"">>)
        /\ got.switch.typ = LastSetting(q, "st", <<"">>)
        /\ got.color = StyleColor(LastSetting(q, "c", <<"">>))
        /\ got.profile = LastSetting(q, "p", <<"">>)
        /\ \A i \in 0 .. (NUM_LEGENDS - 1) :
              /\ got.legends[Table(a, i)] # None
              /\ got.legends[Table(a, i)][1].text = Letters[i + 1]

\* C21: every key, in the row of the overlay and in all later rows, has for
\* rotation, ghosted, switch mount, brand and type, key colour, profile and
\* alignment the value of the last overlay before it that sets the field,
\* and the default if none does; overlays that omit the field and the
\* change to the next key or row leave it as it was: right after a key has
\* been handed out the cursor still has the key's values.
C21_PersistentInherited ==
    /\ ParsedOk =>
          \A k \in 1 .. Len(ExposedKeys) : KeyInherits(k, StringPlace(k))
    /\ (HasCursor /\ yielded # <<>> /\ LastYielded # None) =>
          LET q == StringPlace(Len(SomeOf(yielded)))
          IN  /\ iter.state.a = LastSetting(q, "a", 4 * One) \div One
              /\ iter.state.r = LastSetting(q, "r", 0)
              /\ iter.state.g = LastSetting(q, "g", FALSE)
              /\ iter.state.p = LastSetting(q, "p", <<"">>)

\* a key of the second row has been yielded with the rotation, ghosting,
\* mount, profile, colour and alignment of the overlay of the first row
C21_InheritedAcrossRows ==
    /\ entry = "KeyIterator"
    /\ doc = JArr(<< JArr(<<OverlayStyle1, LegendFull>>), JArr(<<LegendFull>>) >>)
    /\ Len(SomeOf(yielded)) = 2
    /\ yielded[2][1].y = One
    /\ yielded[2][1].rotation = 15 * One
    /\ yielded[2][1].ghosted
    /\ yielded[2][1].switch.mount = <<"cherry">>
    /\ yielded[2][1].profile = <<"DCS">>
    /\ yielded[2][1].color = <<255, 0, 0, 255>>
    /\ yielded[2][1].legends[1][1].text = "A"

\* the place in DocElems of the legend string before the k-th, 0 for the
\* first
PlaceBefore(k) == IF k = 1 THEN 0 ELSE StringPlace(k - 1)

\* the element right before place q is an overlay that sets the flag to true
FlagBefore(q, name) ==
    IF q > 1 /\ IsObject(DocElems[q - 1]) THEN Field(DocElems[q - 1], name, FALSE)
    ELSE FALSE

\* the k-th legend string is the first element of its row
StartsRow(k) ==
    \E n \in 1 .. Len(DocRows) :
        Len(FlatElems(SubSeq(DocRows, 1, n - 1))) + 1 = StringPlace(k)

\* C23: a key is stepped, homing or decal exactly when the element right
\* before its legend string, in the same row, is an overlay that sets the
\* flag to true: so only if the last overlay since the previous key does,
\* and never because an earlier key or an earlier overlay had the flag; the
\* cursor right after a key has all three flags false.
C23_FlagsNotInherited ==
    /\ ParsedOk =>
          \A k \in 1 .. Len(ExposedKeys) :
              LET got == ExposedKeys[k]
                  q == StringPlace(k)
                  fresh == StartsRow(k)
              IN  /\ got.stepped = (~fresh /\ FlagBefore(q, "l"))
                  /\ got.homing = (~fresh /\ FlagBefore(q, "n"))
                  /\ got.decal = (~fresh /\ FlagBefore(q, "d"))
                  /\ (got.stepped \/ got.homing \/ got.decal) => PlaceBefore(k) < q - 1
    /\ (HasCursor /\ yielded # <<>> /\ LastYielded # None) =>
          /\ ~iter.state.l /\ ~iter.state.n /\ ~iter.state.d

\* a stepped key has been yielded, and after it a key with no flag
C23_KeyAfterSteppedKey ==
    /\ entry = "KeyIterator"
    /\ doc = JArr(<< JArr(<<OverlayL, LegendFull, LegendFull>>) >>)
    /\ Len(SomeOf(yielded)) = 2
    /\ yielded[1][1].stepped
    /\ ~yielded[2][1].stepped /\ ~yielded[2][1].homing /\ ~yielded[2][1].decal

----------------------------------------------------------------------------
(* SpecLong: build_key on legend strings of 12 lines and more, then on the *)
(* string cut after its 12th line, then the parse of the string as the     *)
(* only element of a document                                              *)

\* the longest legend string of SpecLong, in "\n"-separated segments
MaxLongSegs == 14

\* the segments that may be blank
BlankAt == {2, 6, 11, 12, 13, 14, 15}

\* legend strings of 13 to MaxLongSegs segments
LongBlobs ==
    UNION { { [k \in 1 .. n |-> IF k \in S THEN "" ELSE Letters[k]] :
                S \in SUBSET (BlankAt \cap (1 .. n)) } :
            n \in (NUM_LEGENDS + 1) .. MaxLongSegs }

CallBuildLong ==
    /\ pc = "idle"
    /\ \E b \in LongBlobs :
        /\ op' = [name |-> "build_key", arg |-> b]
        /\ key' = Some(build_key(props, b))
    /\ pc' = "built"
    /\ calls' = calls + 1
    /\ UNCHANGED <<props, prev, doc, entry, result, iter, yielded, runs>>

\* build_key on the string up to the end of its 12th line: with the line
\* break that ends the line, and, if the line is not blank, without it too
CallBuildCut ==
    /\ pc = "built"
    /\ \E cut \in {SubSeq(op.arg, 1, NUM_LEGENDS) \o <<"">>}
                  \cup (IF op.arg[NUM_LEGENDS] # ""
                        THEN {SubSeq(op.arg, 1, NUM_LEGENDS)} ELSE {}) :
        yielded' = <<Some(build_key(props, cut))>>
    /\ pc' = "cut"
    /\ calls' = calls + 1
    /\ UNCHANGED <<props, prev, op, key, doc, entry, result, iter, runs>>

\* the eager parse of [[{"a": a}, legends]], a the alignment of the cursor
CallParseLong ==
    /\ pc = "cut"
    /\ doc' = JArr(<< JArr(<< JObj(<< <<"a", JNum(props.a * One)>> >>),
                              JStr(op.arg) >>) >>)
    /\ LET r == Keyboard_deserialize(doc')
       IN  result' = IF r.ok THEN [kind |-> "Ok", v |-> r.v]
                             ELSE [kind |-> "Err", e |-> r.e]
    /\ pc' = "parsed"
    /\ UNCHANGED <<props, prev, op, key, calls, entry, iter, yielded, runs>>

NextLong == CallBuildLong \/ CallBuildCut \/ CallParseLong

SpecLong == InitKey /\ [][NextLong]_vars

----------------------------------------------------------------------------
(* SpecCursor: the two entry points on layouts whose overlays move the     *)
(* cursor, size the key and set the anchor, several of them in a row       *)

\* {"x": 1, "h": 2, "y2": 0.25, "h2": 1.5}
OverlayTall ==
    JObj(<< <<"x", JNum(One)>>, <<"h", JNum(2 * One)>>, <<"y2", JNum(1)>>,
            <<"h2", JNum(6)>> >>)
\* {"rx": 1, "ry": 2, "x": 1}
OverlayAnchor ==
    JObj(<< <<"rx", JNum(One)>>, <<"ry", JNum(2 * One)>>, <<"x", JNum(One)>> >>)

CursorElems == {LegendA, OverlayXY, OverlayStepped, OverlayTall, OverlayAnchor}

\* the size of a cursor layout: its rows plus their elements
MaxCursorWeight == 5

\* every sequence of rows of cursor elements whose size is at most w
RECURSIVE CursorRows(_)
CursorRows(w) ==
    {<<>>} \cup
    UNION { UNION { { <<JArr(row)>> \o rest : rest \in CursorRows(w - 1 - n) } :
                      row \in [1 .. n -> CursorElems] } : n \in 0 .. (w - 1) }

\* the layouts, and the document of test_kle_layout_iterator
CursorDocs == { JArr(rows) : rows \in CursorRows(MaxCursorWeight) } \cup {DocLayoutTest}

InitCursor ==
    /\ pc = "start"
    /\ doc \in CursorDocs
    /\ entry \in EntryPoints
    /\ result = NoResult
    /\ iter = NoIter
    /\ yielded = <<>>
    /\ props = KleProps_default
    /\ prev = KleProps_default
    /\ op = NoOp
    /\ key = None
    /\ calls = 0
    /\ runs = <<>>

SpecCursor == InitCursor /\ [][Next]_vars

----------------------------------------------------------------------------
(* Properties of SpecCursor, read off the JSON: for each key the run of    *)
(* overlays that stand, in its row, between the key before it and its own  *)
(* legend string                                                           *)

\* how many elements the rows before the n-th row hold
RowStart(n) == Len(FlatElems(SubSeq(DocRows, 1, n - 1)))

\* the row that holds place q of DocElems
RowOfPlace(q) ==
    CHOOSE n \in 1 .. Len(DocRows) :
        RowStart(n) < q /\ q <= RowStart(n) + Len(DocRows[n][2])

\* the k-th legend string comes after another legend string of its row
FollowsKey(k) == k > 1 /\ PlaceBefore(k) > RowStart(RowOfPlace(StringPlace(k)))

\* the overlays right before the k-th legend string, in its row, since the
\* key before it
OverlayRun(k) ==
    LET q == StringPlace(k)
        from == IF FollowsKey(k) THEN PlaceBefore(k) ELSE RowStart(RowOfPlace(q))
    IN  SubSeq(DocElems, from + 1, q - 1)

\* the sum of the values the overlays es give the field, 0 where it is absent
RECURSIVE SumField(_, _)
SumField(es, name) ==
    IF es = <<>> THEN 0
    ELSE Field(Head(es), name, 0) + SumField(Tail(es), name)

\* the last overlay of es that sets rx or ry, 0 if none does
LastAnchor(es) ==
    LET js == {j \in 1 .. Len(es) : HasField(es[j], "rx") \/ HasField(es[j], "ry")}
    IN  IF js = {} THEN 0 ELSE CHOOSE j \in js : \A i \in js : i <= j

\* what the last overlay of es that has the field gives it, d if none has
RunSetting(es, name, d) ==
    LET js == {j \in 1 .. Len(es) : HasField(es[j], name)}
    IN  IF js = {} THEN d
        ELSE Field(es[CHOOSE j \in js : \A i \in js : i <= j], name, d)

\* where the cursor is after the overlays es, from the position (x, y) and
\* the anchor (rx, ry): the deltas of all of es added to (x, y), or, if es
\* sets the anchor, the deltas since the last such overlay added to the
\* anchor
RunPosition(es, x, y, rx, ry) ==
    LET j == LastAnchor(es)
        since == SubSeq(es, j, Len(es))
    IN  IF j = 0
        THEN <<x + SumField(es, "x"), y + SumField(es, "y")>>
        ELSE <<RunSetting(SubSeq(es, 1, j), "rx", rx) + SumField(since, "x"),
               RunSetting(SubSeq(es, 1, j), "ry", ry) + SumField(since, "y")>>

AnchorPlace(q) ==
    LET js == {i \in 1 .. (q - 1) :
                  /\ IsObject(DocElems[i])
                  /\ HasField(DocElems[i], "rx") \/ HasField(DocElems[i], "ry")}
    IN  IF js = {} THEN 0 ELSE CHOOSE j \in js : \A i \in js : i <= j

\* the y a key at place q is asked to have: the ry of the last overlay
\* before it that sets the anchor (0 at the start of the document), plus the
\* y deltas of every overlay from there on, plus 1 for each row change since
CumulativeY(q) ==
    LET a == AnchorPlace(q)
        since == SelectSeq(SubSeq(DocElems, IF a = 0 THEN 1 ELSE a, q - 1), IsObject)
    IN  (IF a = 0 THEN 0 ELSE LastSetting(a + 1, "ry", 0))
        + SumField(since, "y")
        + One * (RowOfPlace(q) - (IF a = 0 THEN 1 ELSE RowOfPlace(a)))

\* C33: the y of every key is the sum, over the whole document up to the
\* key, of the y deltas of the overlays and of 1 for each change to a
\* following row, counted from the last overlay that set rx or ry (which
\* puts y at ry) or from 0: a y delta shifts every later key of its row and
\* of all later rows, and nothing else changes y: next_key leaves it alone.
\* The key D of test_kle_layout_iterator is at y = 1.25.  The first key of a
\* following row is at rx moved by the x deltas of the overlays before it in
\* its own row: what the row before left in x is discarded.
C33_CumulativeY ==
    /\ ParsedOk =>
          \A k \in 1 .. Len(ExposedKeys) :
              LET got == ExposedKeys[k]
                  q == StringPlace(k)
                  first == RowStart(RowOfPlace(q)) + 1
                  rx == LastSetting(first, "rx", 0)
              IN  /\ got.y = CumulativeY(q)
                  /\ (RowOfPlace(q) > 1 /\ ~FollowsKey(k)) =>
                        got.x = RunPosition(OverlayRun(k), rx, 0, rx, 0)[1]
    /\ (doc = DocLayoutTest /\ Len(ExposedKeys) = 4) => ExposedKeys[4].y = One + 1
    /\ HasCursor => next_key(iter.state).y = iter.state.y

\* the four keys of test_kle_layout_iterator have been yielded, C at
\* y = 0.25 and D, in the second row, at x = 0 and y = 1.25
C33_TestDocumentYielded ==
    /\ entry = "KeyIterator"
    /\ doc = DocLayoutTest
    /\ Len(SomeOf(yielded)) = 4
    /\ yielded[3][1].y = 1
    /\ yielded[4][1].x = 0
    /\ yielded[4][1].y = One + 1

----------------------------------------------------------------------------
(* SpecCursorLive: SpecCursor with a caller that goes on asking: while it   *)
(* holds a KeyIterator and may still call next(), it calls it again         *)

\* when KeyIteratorNext can be taken: next() returns for every iterator, and
\* every call lengthens yielded, so this is ENABLED <<KeyIteratorNext>>_vars
KeyIteratorNextEnabled == pc = "iterating" /\ Ends < MaxEnds

\* weak fairness of KeyIteratorNext, with its enabling condition written out
KeyIteratorNextFair ==
    []<>(~KeyIteratorNextEnabled) \/ []<><<KeyIteratorNext>>_vars

SpecCursorLive == InitCursor /\ [][Next]_vars /\ KeyIteratorNextFair

\* what an iterator has left to consume: the elements of key_iter, and the
\* rows of row_iter with their elements
RECURSIVE RowsWeight(_)
RowsWeight(rows) ==
    IF rows = <<>> THEN 0 ELSE 1 + Len(Head(rows)) + RowsWeight(Tail(rows))
Remaining(it) == Len(it.key_iter) + RowsWeight(it.row_iter)

\* a call of next(): it consumes an element or a row, or there is nothing
\* left and it returns None and leaves the iterator as it is
NextConsumes ==
    (pc = "iterating" /\ yielded' # yielded) =>
        \/ Remaining(iter') < Remaining(iter)
        \/ /\ Remaining(iter) = 0
           /\ iter' = iter
           /\ yielded' = Append(yielded, None)

\* the keys handed out are never more than the legend strings of the
\* document, and the first end comes at the latest with the request after
\* as many keys
KeysBounded ==
    /\ Len(SomeOf(yielded)) <= Len(LegendStrings(DocItems))
    /\ Ends = 0 => Len(yielded) <= Len(LegendStrings(DocItems))
    /\ (entry = "Keyboard" /\ ParsedOk) =>
          Len(result.v.keys) <= Len(LegendStrings(DocItems))

\* C34: key production terminates.  Every call of next() takes at least one
\* element or one row from what the iterator has left (or finds nothing left
\* and returns None); the keys ever handed out, at either entry point, are
\* at most the legend strings of the document; and a KeyIterator whose
\* caller keeps asking reports its end.
C34_KeyProductionTerminates ==
    /\ [][NextConsumes]_vars
    /\ []KeysBounded
    /\ (pc = "iterating") ~> (Ends >= 1)

\* a KeyIterator on a layout of two rows has handed out a key for each of
\* its two legend strings, has then reported its end, and has nothing left
C34_AllConsumedThenEnd ==
    /\ entry = "KeyIterator"
    /\ doc = JArr(<< JArr(<<OverlayXY, LegendA>>), JArr(<<LegendA>>) >>)
    /\ Len(yielded) = 3
    /\ yielded[1] # None /\ yielded[2] # None /\ yielded[3] = None
    /\ Remaining(iter) = 0

====
